---- MODULE Spec2Model ----
(***************************************************************************)
(* Ai2Human: the batch orchestrator (services/batch_processing_service.py) *)
(* and the external-service stage of the humanizer (routes/humanizer.py).  *)
(*                                                                         *)
(* The orchestrator is one shared BatchProcessingService (analytics.py:16) *)
(* called by the request threads of the web server.  Every thread is       *)
(* modelled statement by statement wherever it reads or writes the shared  *)
(* job table active_batches: a membership test and the access it guards    *)
(* are separate steps, because another thread may run between them.        *)
(***************************************************************************)
EXTENDS Integers, Sequences, FiniteSets, TLC

\* ------------------------------------------------------------------ bounds
NumCallers == 2      \* request threads that call process_batch (one call each)
NumAux == 1          \* request threads that call the other three operations
MaxLen == 2          \* longest accepted texts list, process_batch threads alone
MaxLenShared == 1    \* longest accepted texts list, all operations together
MaxWidth == 2        \* widest pool the orchestrator is constructed with
MaxTime == 1         \* clock readings 0..MaxTime (in hours)
MaxAgeHours == 1     \* largest max_age_hours handed to cleanup_old_batches
MaxTextLen == 5      \* longest text handed to analyze
Sub == 4             \* a score is counted in 1/Sub of a tenth of a point
MaxRawLen == 4       \* longest text handed to the normalization step
MaxCmpLen == 3       \* longest text handed to compare
MaxAdded == 30       \* most words a comparison finds added
ManyRemoved == 100   \* a large number of removed words
MaxSentenceDelta == 10  \* largest change of the sentence count
Grid == 4            \* the scores of a metric group divide 0..100 in Grid steps
MaxPerpLen == 7      \* longest text handed to the perplexity estimate
MaxFragments == 3    \* most fragments a text splits into, structure pass
MaxFlowLen == 6      \* longest text handed to the sentence-flow pass
MaxTokenLen == 3     \* longest token of a text of the vocabulary pass
MaxTokens == 2       \* most tokens of a text of the vocabulary pass

\* ------------------------------------------------------- program constants
MaxBatchSize == 50       \* batch_processing_service.py:40
SecondsPerHour == 3600   \* batch_processing_service.py:307
MsPerSecond == 1000      \* batch_processing_service.py:48
DefaultWidth == 4        \* batch_processing_service.py:16
MaxVariation == 3        \* humanizer.py:564, batch_processing_service.py:193
HixMaxRetries == 5       \* hix_bypass_service.py:25
HixRetryDelay == 2       \* hix_bypass_service.py:26
PwaMaxRetries == 10      \* prowritingaid_service.py:83
PwaRetryDelay == 2       \* prowritingaid_service.py:122, 144
NumMarks == 15           \* text_comparison_service.py:203, the marks of the class

VARIABLES
    max_workers,     \* self.max_workers
    active_batches,  \* self.active_batches: batch id -> job record
    clock,           \* the wall clock, in whole hours
    pc,              \* per caller: where its process_batch call stands
    texts,           \* per caller: the texts argument
    bid,             \* per caller: the local batch_id
    fut,             \* per caller: the state of each submitted future
    yielded,         \* per caller: the positions as_completed yielded, in order
    results,         \* per caller: the local results list
    cur,             \* per caller: the position handled by the loop body
    ret,             \* per caller: what process_batch returned
    apc,             \* per auxiliary thread: where its operation stands
    aloc,            \* per auxiliary thread: the operation's locals
    aret,            \* per auxiliary thread: how its last operation ended
    credential,      \* the humanizer's collaborators: which credentials are set
    hpc,             \* humanize_text: the step it stands at
    mode,            \* humanize_text: the mode argument
    enhanced_text,   \* enhance_with_external_services: the working text
    service_results, \* enhance_with_external_services: the per-service record
    response,        \* what each collaborator answered ("none": not asked)
    calls,           \* the collaborators invoked, in order
    hret,            \* how humanize_text ended
    arg,             \* the argument of the function or operation applied
    op,              \* which function or operation was applied ("none": not yet)
    out              \* what it returned

callVars == <<pc, texts, bid, fut, yielded, results, cur, ret>>
auxVars == <<apc, aloc, aret>>
batchVars == <<max_workers, active_batches, clock, callVars, auxVars>>

humVars == <<credential, hpc, mode, enhanced_text, service_results, response,
             calls, hret>>

fnVars == <<arg, op, out>>

vars == <<batchVars, humVars, fnVars>>

Callers == 1..NumCallers
Aux == 1..NumAux

NoId == [kind |-> "none", n |-> 0]
UserIds == {[kind |-> "user", n |-> 1]}
NoTime == -1

\* time.time(), in seconds
Now == clock * SecondsPerHour

\* f"batch_{int(time.time() * 1000)}"
AutoId(t) == [kind |-> "auto", n |-> t * MsPerSecond]

\* The texts a caller submits: one list per length, alternating two texts.
TextsOfLen(n) == [i \in 1..n |-> IF i % 2 = 1 THEN "a" ELSE "b"]

\* the lengths tried: empty, accepted, and one past the limit
Lens(max) == (0..max) \cup {MaxBatchSize + 1}

\* ------------------------------------------------------- the job table
Has(id) == id \in DOMAIN active_batches

Put(tab, id, rec) ==
    [k \in DOMAIN tab \cup {id} |-> IF k = id THEN rec ELSE tab[k]]

Remove(tab, ids) == [k \in DOMAIN tab \ ids |-> tab[k]]

\* lines 51-57
NewRecord(n, t) ==
    [total |-> n, completed |-> 0, failed |-> 0, start_time |-> t,
     status |-> "processing", end_time |-> NoTime]

\* the size limit off by one
Rejection_OffByOne(n) ==
    IF n = 0 THEN "err_empty"
    ELSE IF n >= MaxBatchSize THEN "err_too_large"
    ELSE "none"

\* lines 34 and 40: the error process_batch returns at once, or "none"
Rejection(n) ==
    IF n = 0 THEN "err_empty"
    ELSE IF n > MaxBatchSize THEN "err_too_large"
    ELSE "none"

\* ------------------------------------------------------- process_batch
\* lines 33-57: validation, batch id, the job record
PBEnter(c, n, id) ==
    /\ pc[c] = "idle"
    /\ texts' = [texts EXCEPT ![c] = TextsOfLen(n)]
    /\ IF Rejection(n) # "none"
       THEN /\ pc' = [pc EXCEPT ![c] = "done"]
            /\ ret' = [ret EXCEPT ![c] = Rejection(n)]
            /\ UNCHANGED <<active_batches, bid, fut>>
       ELSE LET b == IF id = NoId THEN AutoId(Now) ELSE id IN
            /\ bid' = [bid EXCEPT ![c] = b]
            /\ active_batches' = Put(active_batches, b, NewRecord(n, Now))
            /\ fut' = [fut EXCEPT ![c] = [i \in 1..n |-> "new"]]
            /\ pc' = [pc EXCEPT ![c] = "submit"]
            /\ UNCHANGED ret
    /\ UNCHANGED <<fnVars, humVars, auxVars, max_workers, clock, yielded, results, cur>>

NotSubmitted(c) == {i \in DOMAIN fut[c] : fut[c][i] = "new"}
Queued(c) == {i \in DOMAIN fut[c] : fut[c][i] = "queued"}
Running(c) == {i \in DOMAIN fut[c] : fut[c][i] = "running"}
Finished(c) == {i \in DOMAIN fut[c] : fut[c][i] \in {"ok", "fail"}}

Min(S) == CHOOSE x \in S : \A y \in S : x <= y

Range(s) == {s[i] : i \in DOMAIN s}

\* lines 140-143: executor.submit of the next text; never waits
PBSubmit(c) ==
    /\ pc[c] = "submit"
    /\ LET i == Min(NotSubmitted(c)) IN
       /\ fut' = [fut EXCEPT ![c][i] = "queued"]
       /\ pc' = [pc EXCEPT ![c] =
                    IF NotSubmitted(c) = {i} THEN "collect" ELSE "submit"]
    /\ UNCHANGED <<fnVars, humVars, auxVars, max_workers, active_batches, clock, texts, bid, yielded,
                   results, cur, ret>>

\* a pool that starts a thread for every work item
PoolHasFreeWorker_Unbounded(c) == TRUE

\* ThreadPoolExecutor(max_workers): a worker thread is free
PoolHasFreeWorker(c) == Cardinality(Running(c)) < max_workers

\* a pool thread takes the oldest queued work item
WorkerStart(c) ==
    /\ Queued(c) # {}
    /\ PoolHasFreeWorker(c)
    /\ fut' = [fut EXCEPT ![c][Min(Queued(c))] = "running"]
    /\ UNCHANGED <<fnVars, humVars, auxVars, max_workers, active_batches, clock, pc, texts, bid,
                   yielded, results, cur, ret>>

\* lines 176-227: _process_single_text returns a success or a failure dict
WorkerFinish(c, i, ok) ==
    /\ i \in Running(c)
    /\ fut' = [fut EXCEPT ![c][i] = IF ok THEN "ok" ELSE "fail"]
    /\ UNCHANGED <<fnVars, humVars, auxVars, max_workers, active_batches, clock, pc, texts, bid,
                   yielded, results, cur, ret>>

\* the dict _process_single_text returned for position i (index i - 1)
ResultOf(c, i) ==
    [index |-> i - 1, success |-> fut[c][i] = "ok", original_text |-> texts[c][i]]

\* lines 162-167: the entry the except branch appends
FailureOf(c, i) ==
    [index |-> i - 1, success |-> FALSE, original_text |-> texts[c][i]]

\* lines 146-154: as_completed yields a finished future; its result is
\* appended; then the membership test of line 154
PBCollect(c, i) ==
    /\ pc[c] = "collect"
    /\ i \in Finished(c) \ Range(yielded[c])
    /\ yielded' = [yielded EXCEPT ![c] = Append(@, i)]
    /\ results' = [results EXCEPT ![c] = Append(@, ResultOf(c, i))]
    /\ IF Has(bid[c])
       THEN /\ pc' = [pc EXCEPT ![c] = "update"]
            /\ cur' = [cur EXCEPT ![c] = i]
       ELSE UNCHANGED <<pc, cur>>
    /\ UNCHANGED <<fnVars, humVars, auxVars, max_workers, active_batches, clock, texts, bid, fut, ret>>

\* every result counted as completed
Bump_IgnoresFailure(tab, id, field) == [tab EXCEPT ![id].completed = @ + 1]

\* the += 1 of lines 156, 158 and 170
Bump(tab, id, field) ==
    IF field = "completed"
    THEN [tab EXCEPT ![id].completed = @ + 1]
    ELSE [tab EXCEPT ![id].failed = @ + 1]

\* lines 155-158, and on KeyError lines 160-167
PBUpdate(c) ==
    /\ pc[c] = "update"
    /\ IF Has(bid[c])
       THEN /\ active_batches' =
                  Bump(active_batches, bid[c],
                       IF fut[c][cur[c]] = "ok" THEN "completed" ELSE "failed")
            /\ pc' = [pc EXCEPT ![c] = "collect"]
            /\ cur' = [cur EXCEPT ![c] = 0]
            /\ UNCHANGED results
       ELSE \* the record was evicted after the test of line 154: KeyError
            /\ results' = [results EXCEPT ![c] = Append(@, FailureOf(c, cur[c]))]
            /\ pc' = [pc EXCEPT ![c] = "update_exc"]
            /\ UNCHANGED <<active_batches, cur>>
    /\ UNCHANGED <<fnVars, humVars, auxVars, max_workers, clock, texts, bid, fut, yielded, ret>>

\* line 169: the membership test inside the except branch
PBExceptTest(c) ==
    /\ pc[c] = "update_exc"
    /\ IF Has(bid[c])
       THEN /\ pc' = [pc EXCEPT ![c] = "update_exc2"]
            /\ UNCHANGED cur
       ELSE /\ pc' = [pc EXCEPT ![c] = "collect"]
            /\ cur' = [cur EXCEPT ![c] = 0]
    /\ UNCHANGED <<fnVars, humVars, auxVars, max_workers, active_batches, clock, texts, bid, fut,
                   yielded, results, ret>>

\* line 170; a KeyError here leaves the loop for the handler of line 83
PBExceptUpdate(c) ==
    /\ pc[c] = "update_exc2"
    /\ IF Has(bid[c])
       THEN /\ active_batches' = Bump(active_batches, bid[c], "failed")
            /\ pc' = [pc EXCEPT ![c] = "collect"]
       ELSE /\ pc' = [pc EXCEPT ![c] = "handler"]
            /\ UNCHANGED active_batches
    /\ cur' = [cur EXCEPT ![c] = 0]
    /\ UNCHANGED <<fnVars, humVars, auxVars, max_workers, clock, texts, bid, fut, yielded, results, ret>>

\* insertion of e into a list sorted by index, after the entries with the
\* same index (list.sort is stable)
RECURSIVE InsertByIndex(_, _)
InsertByIndex(e, s) ==
    IF s = <<>> THEN <<e>>
    ELSE IF e.index < Head(s).index THEN <<e>> \o s
    ELSE <<Head(s)>> \o InsertByIndex(e, Tail(s))

RECURSIVE SortByIndexRev(_)
SortByIndexRev(s) ==
    IF s = <<>> THEN <<>>
    ELSE InsertByIndex(s[Len(s)], SortByIndexRev(SubSeq(s, 1, Len(s) - 1)))

\* line 173: results.sort(key=lambda x: x.get('index', 0))
SortByIndex(s) == SortByIndexRev(s)

\* lines 146, 171-174: every future was yielded; the pool shuts down; sort
PBSort(c) ==
    /\ pc[c] = "collect"
    /\ Range(yielded[c]) = DOMAIN fut[c]
    /\ results' = [results EXCEPT ![c] = SortByIndex(@)]
    /\ pc' = [pc EXCEPT ![c] = "mark"]
    /\ UNCHANGED <<fnVars, humVars, auxVars, max_workers, active_batches, clock, texts, bid, fut,
                   yielded, cur, ret>>

\* line 63
PBMark(c) ==
    /\ pc[c] = "mark"
    /\ IF Has(bid[c])
       THEN /\ active_batches' = [active_batches EXCEPT ![bid[c]].status = "completed"]
            /\ pc' = [pc EXCEPT ![c] = "end_time"]
       ELSE /\ pc' = [pc EXCEPT ![c] = "handler"]
            /\ UNCHANGED active_batches
    /\ UNCHANGED <<fnVars, humVars, auxVars, max_workers, clock, texts, bid, fut, yielded, results, cur, ret>>

\* line 64
PBEndTime(c) ==
    /\ pc[c] = "end_time"
    /\ IF Has(bid[c])
       THEN /\ active_batches' = [active_batches EXCEPT ![bid[c]].end_time = Now]
            /\ pc' = [pc EXCEPT ![c] = "return"]
       ELSE /\ pc' = [pc EXCEPT ![c] = "handler"]
            /\ UNCHANGED active_batches
    /\ UNCHANGED <<fnVars, humVars, auxVars, max_workers, clock, texts, bid, fut, yielded, results, cur, ret>>

\* lines 66-81: the statistics are local; line 80 reads end_time and
\* start_time of the record
PBReturn(c) ==
    /\ pc[c] = "return"
    /\ IF Has(bid[c]) /\ active_batches[bid[c]].end_time # NoTime
       THEN /\ pc' = [pc EXCEPT ![c] = "done"]
            /\ ret' = [ret EXCEPT ![c] = "ok"]
       ELSE /\ pc' = [pc EXCEPT ![c] = "handler"]
            /\ UNCHANGED ret
    /\ UNCHANGED <<fnVars, humVars, auxVars, max_workers, active_batches, clock, texts, bid, fut,
                   yielded, results, cur>>

\* lines 83-85: the handler's membership test.  The exception has left the
\* with block of line 138, whose exit waits for every future of the pool.
PBHandler(c) ==
    /\ pc[c] = "handler"
    /\ Finished(c) = DOMAIN fut[c]
    /\ IF Has(bid[c])
       THEN /\ pc' = [pc EXCEPT ![c] = "handler_set"]
            /\ UNCHANGED ret
       ELSE /\ pc' = [pc EXCEPT ![c] = "done"]
            /\ ret' = [ret EXCEPT ![c] = "err_failed"]
    /\ UNCHANGED <<fnVars, humVars, auxVars, max_workers, active_batches, clock, texts, bid, fut,
                   yielded, results, cur>>

\* lines 86-93; a KeyError at line 86 leaves process_batch
PBHandlerSet(c) ==
    /\ pc[c] = "handler_set"
    /\ pc' = [pc EXCEPT ![c] = "done"]
    /\ IF Has(bid[c])
       THEN /\ active_batches' = [active_batches EXCEPT ![bid[c]].status = "failed"]
            /\ ret' = [ret EXCEPT ![c] = "err_failed"]
       ELSE /\ ret' = [ret EXCEPT ![c] = "raised"]
            /\ UNCHANGED active_batches
    /\ UNCHANGED <<fnVars, humVars, auxVars, max_workers, clock, texts, bid, fut, yielded, results, cur>>

\* ------------------------------------------- the other three operations
NoLoc == [id |-> NoId, size |-> 0, now |-> 0, max_age |-> 0, rm |-> {}]

\* every batch id a request may name
AllIds == UserIds \cup {AutoId(t * SecondsPerHour) : t \in 0..MaxTime}

Size(tab) == Cardinality(DOMAIN tab)

\* get_batch_status, line 105: the membership test
GSTest(a, id) ==
    /\ apc[a] = "idle"
    /\ IF Has(id)
       THEN /\ apc' = [apc EXCEPT ![a] = "gs_copy"]
            /\ aloc' = [aloc EXCEPT ![a] = [NoLoc EXCEPT !.id = id]]
            /\ aret' = [aret EXCEPT ![a] = "none"]
       ELSE /\ aret' = [aret EXCEPT ![a] = "err_not_found"]
            /\ UNCHANGED <<apc, aloc>>
    /\ UNCHANGED <<fnVars, humVars, max_workers, active_batches, clock, callVars>>

\* lines 114-119: the progress of a record, in percent
Progress(info) ==
    IF info.total > 0 THEN (info.completed * 100) \div info.total ELSE 0

\* the derived fields written to the record itself
TableAfterStatus_Aliased(tab, id) ==
    [tab EXCEPT ![id] =
        [f \in DOMAIN tab[id] \cup {"progress_percentage"} |->
            IF f = "progress_percentage" THEN Progress(tab[id]) ELSE tab[id][f]]]

\* lines 111-127: the table after get_batch_status has built its answer for
\* the record of id: batch_info is a copy (line 111) of a dict of numbers
\* and strings, and the derived fields are written to the copy
TableAfterStatus(tab, id) == tab

\* get_batch_status, lines 111-132: the copy of the record, or KeyError
GSCopy(a) ==
    /\ apc[a] = "gs_copy"
    /\ apc' = [apc EXCEPT ![a] = "idle"]
    /\ aloc' = [aloc EXCEPT ![a] = NoLoc]
    /\ aret' = [aret EXCEPT ![a] = IF Has(aloc[a].id) THEN "ok" ELSE "raised"]
    /\ active_batches' = IF Has(aloc[a].id)
                         THEN TableAfterStatus(active_batches, aloc[a].id)
                         ELSE active_batches
    /\ UNCHANGED <<fnVars, humVars, max_workers, clock, callVars>>

\* get_active_batches, lines 322-332: the comprehension starts to iterate
\* over active_batches.items(); over an empty table it also ends
GABegin(a) ==
    /\ apc[a] = "idle"
    /\ IF Size(active_batches) = 0
       THEN /\ aret' = [aret EXCEPT ![a] = "ok"]
            /\ UNCHANGED <<apc, aloc>>
       ELSE /\ apc' = [apc EXCEPT ![a] = "ga_iter"]
            /\ aloc' = [aloc EXCEPT ![a] = [NoLoc EXCEPT !.size = Size(active_batches)]]
            /\ aret' = [aret EXCEPT ![a] = "none"]
    /\ UNCHANGED <<fnVars, humVars, max_workers, active_batches, clock, callVars>>

\* the iterator's last step: RuntimeError when the table changed size
GAEnd(a) ==
    /\ apc[a] = "ga_iter"
    /\ apc' = [apc EXCEPT ![a] = "idle"]
    /\ aloc' = [aloc EXCEPT ![a] = NoLoc]
    /\ aret' = [aret EXCEPT ![a] =
                   IF Size(active_batches) = aloc[a].size THEN "ok" ELSE "raised"]
    /\ UNCHANGED <<fnVars, humVars, max_workers, active_batches, clock, callVars>>

\* the age test with >= for >
TooOld_Inclusive(info, current_time, max_age_seconds) ==
    current_time - info.start_time >= max_age_seconds

\* line 312
TooOld(info, current_time, max_age_seconds) ==
    current_time - info.start_time > max_age_seconds

\* cleanup_old_batches, lines 306-310: the clock is read and the scan starts
CLBegin(a, max_age_hours) ==
    /\ apc[a] = "idle"
    /\ IF Size(active_batches) = 0
       THEN /\ aret' = [aret EXCEPT ![a] = "ok"]
            /\ UNCHANGED <<apc, aloc>>
       ELSE /\ apc' = [apc EXCEPT ![a] = "cl_scan"]
            /\ aloc' = [aloc EXCEPT ![a] =
                           [NoLoc EXCEPT !.size = Size(active_batches),
                                         !.now = Now,
                                         !.max_age = max_age_hours * SecondsPerHour]]
            /\ aret' = [aret EXCEPT ![a] = "none"]
    /\ UNCHANGED <<fnVars, humVars, max_workers, active_batches, clock, callVars>>

\* lines 310-313: the scan ends: RuntimeError when the table changed size,
\* else the ids of the records that are too old
CLScan(a) ==
    /\ apc[a] = "cl_scan"
    /\ IF Size(active_batches) # aloc[a].size
       THEN /\ apc' = [apc EXCEPT ![a] = "idle"]
            /\ aloc' = [aloc EXCEPT ![a] = NoLoc]
            /\ aret' = [aret EXCEPT ![a] = "raised"]
       ELSE /\ apc' = [apc EXCEPT ![a] = "cl_delete"]
            /\ aloc' = [aloc EXCEPT ![a].rm =
                           {id \in DOMAIN active_batches :
                               TooOld(active_batches[id], aloc[a].now, aloc[a].max_age)}]
            /\ UNCHANGED aret
    /\ UNCHANGED <<fnVars, humVars, max_workers, active_batches, clock, callVars>>

\* lines 315-316: one del; KeyError when the id is no longer in the table
CLDelete(a, id) ==
    /\ apc[a] = "cl_delete"
    /\ id \in aloc[a].rm
    /\ IF Has(id)
       THEN /\ active_batches' = Remove(active_batches, {id})
            /\ aloc' = [aloc EXCEPT ![a].rm = @ \ {id}]
            /\ UNCHANGED <<apc, aret>>
       ELSE /\ apc' = [apc EXCEPT ![a] = "idle"]
            /\ aloc' = [aloc EXCEPT ![a] = NoLoc]
            /\ aret' = [aret EXCEPT ![a] = "raised"]
            /\ UNCHANGED active_batches
    /\ UNCHANGED <<fnVars, humVars, max_workers, clock, callVars>>

\* line 318: nothing is left to delete
CLReturn(a) ==
    /\ apc[a] = "cl_delete"
    /\ aloc[a].rm = {}
    /\ apc' = [apc EXCEPT ![a] = "idle"]
    /\ aloc' = [aloc EXCEPT ![a] = NoLoc]
    /\ aret' = [aret EXCEPT ![a] = "ok"]
    /\ UNCHANGED <<fnVars, humVars, max_workers, active_batches, clock, callVars>>

\* the clock advances
Tick ==
    /\ clock < MaxTime
    /\ clock' = clock + 1
    /\ UNCHANGED <<fnVars, humVars, max_workers, active_batches, callVars, auxVars>>

\* --------------------------------- humanize_text and its collaborators
Modes == {"fast", "balanced", "aggressive"}

\* humanizer.py:545: the route hands on whatever mode string the request
\* carries, lower-cased; one unrecognised value stands for them all
RequestModes == Modes \cup {"turbo"}

Services == <<"languagetool", "prowritingaid", "ai_text_humanizer", "hix_bypass">>

ServiceSet == Range(Services)

\* humanizer.py:20-33: the environment variables the constructor reads
Credentials == {"prowritingaid_key", "humanizer_email", "humanizer_password", "hix_key"}

\* A text is known by the collaborators whose output it is, in order; None
\* is the value Python holds when a response carries no text.
InputText == [none |-> FALSE, by |-> <<>>]
NoneText == [none |-> TRUE, by |-> <<>>]
Rewritten(text, service) == [none |-> FALSE, by |-> Append(text.by, service)]

\* humanizer.py:113-118
NoResults == [s \in ServiceSet |-> [applied |-> FALSE, error |-> "none"]]

\* What a collaborator's endpoint may answer.  "bad_body" is a 200 response
\* whose body is not of the documented shape.
LtResponses == {"ok", "http_error", "request_failed", "bad_body"}
PwaResponses == {"ok", "http_error", "request_failed", "timeout", "bad_body"}
AthResponses == {"ok", "error_text", "empty_text", "http_error", "request_failed"}
HixResponses == {"completed", "completed_input_only", "completed_no_text",
                 "task_failed", "err_code", "http_error", "request_failed",
                 "submit_failed", "never_completed", "bad_body"}

\* what a collaborator's method hands back: a result that says success
\* ("ok") or carries an error ("error"), or an exception ("raised"); asked:
\* a request went to the endpoint
Answer(kind, text) == [kind |-> kind, text |-> text, asked |-> TRUE]

\* prowritingaid_service.py:305-311, ai_text_humanizer_service.py:37-43,
\* hix_bypass_service.py:39-45: the error result of a service that lacks
\* its credential
NotConfigured(text) == [kind |-> "error", text |-> text, asked |-> FALSE]

\* languagetool_service.py:158-199: enhance_text_quality.  check_text turns
\* a failed request into an error dict (lines 23-55); a body that is no
\* dict raises at line 182.
LtEnhance(resp, text) ==
    IF resp = "ok" THEN Answer("ok", Rewritten(text, "languagetool"))
    ELSE IF resp = "bad_body" THEN Answer("raised", text)
    ELSE Answer("error", text)

\* prowritingaid_service.py:295-346: enhance_text_quality
PwaEnhance(resp, text) ==
    IF ~credential["prowritingaid_key"] THEN NotConfigured(text)
    ELSE IF resp = "ok" THEN Answer("ok", Rewritten(text, "prowritingaid"))
    ELSE IF resp = "bad_body" THEN Answer("raised", text)
    ELSE Answer("error", text)

\* ai_text_humanizer_service.py:27-102: humanize_text; every exception is
\* caught inside, and without both credentials no request is made
AthHumanize(resp, text) ==
    IF ~(credential["humanizer_email"] /\ credential["humanizer_password"])
    THEN NotConfigured(text)
    ELSE IF resp = "ok" THEN Answer("ok", Rewritten(text, "ai_text_humanizer"))
    ELSE Answer("error", text)

\* hix_bypass_service.py:28-74 and 123-219: humanize_text and _obtain_result.
\* Line 155: data.get('output', data.get('input')) of a completed task; it
\* is the input echoed when only that is present, and None when the
\* output is null or both are absent.
HixHumanize(resp, text) ==
    IF ~credential["hix_key"] THEN NotConfigured(text)
    ELSE IF resp = "completed" THEN Answer("ok", Rewritten(text, "hix_bypass"))
    ELSE IF resp = "completed_input_only" THEN Answer("ok", text)
    ELSE IF resp = "completed_no_text" THEN Answer("ok", NoneText)
    ELSE Answer("error", text)

\* every mode reaches the style service
PwaGate_AnyMode == credential["prowritingaid_key"]

\* humanizer.py:138
PwaGate == mode \in {"balanced", "aggressive"} /\ credential["prowritingaid_key"]

\* humanizer.py:157
AthGate == mode \in {"balanced", "aggressive"} /\ credential["humanizer_email"]

\* humanizer.py:182
HixGate == mode = "aggressive" /\ credential["hix_key"]

\* every mode takes over a sound collaborator's text
Adopt_AnyMode(r, adopts) == IF r.kind = "ok" THEN r.text ELSE enhanced_text

\* humanizer.py:127-128, 145-147, 161-164, 194-196: the working text after a
\* collaborator's result r; adopts: this mode takes over the text
Adopt(r, adopts) == IF r.kind = "ok" /\ adopts THEN r.text ELSE enhanced_text

\* humanizer.py:129-135 and the like: the record kept for the service
Recorded(r, resp) ==
    IF r.kind = "ok" THEN [applied |-> TRUE, error |-> "none"]
    ELSE [applied |-> FALSE, error |-> IF r.asked THEN resp ELSE "not_configured"]

\* a collaborator was invoked and answered; the next step is at
Invoke(service, resp, r, adopts, next) ==
    /\ calls' = Append(calls, service)
    /\ response' = [response EXCEPT ![service] = IF r.asked THEN resp ELSE "none"]
    /\ enhanced_text' = Adopt(r, adopts)
    /\ service_results' = [service_results EXCEPT ![service] = Recorded(r, resp)]
    /\ hpc' = next

Skip(next) ==
    /\ hpc' = next
    /\ UNCHANGED <<calls, response, enhanced_text, service_results>>

\* humanizer.py:473-479, 112-118: humanize_text enters
\* enhance_with_external_services; neither it nor the route in front of it
\* (lines 538-557) looks at the mode before
HTEnter(m) ==
    /\ hpc = "idle"
    /\ mode' = m
    /\ hpc' = "languagetool"
    /\ enhanced_text' = InputText
    /\ service_results' = NoResults
    /\ UNCHANGED <<fnVars, batchVars, credential, response, calls, hret>>

\* humanizer.py:120-135
StepLanguageTool(resp) ==
    /\ hpc = "languagetool"
    /\ Invoke("languagetool", resp, LtEnhance(resp, enhanced_text), TRUE,
              "prowritingaid")
    /\ UNCHANGED <<fnVars, batchVars, credential, mode, hret>>

\* humanizer.py:137-154
StepProWritingAid(resp) ==
    /\ hpc = "prowritingaid"
    /\ IF PwaGate
       THEN Invoke("prowritingaid", resp, PwaEnhance(resp, enhanced_text),
                   mode = "aggressive", "ai_text_humanizer")
       ELSE Skip("ai_text_humanizer")
    /\ UNCHANGED <<fnVars, batchVars, credential, mode, hret>>

\* humanizer.py:156-179
StepAiTextHumanizer(resp) ==
    /\ hpc = "ai_text_humanizer"
    /\ IF AthGate
       THEN Invoke("ai_text_humanizer", resp, AthHumanize(resp, enhanced_text),
                   mode = "aggressive", "hix_bypass")
       ELSE Skip("hix_bypass")
    /\ UNCHANGED <<fnVars, batchVars, credential, mode, hret>>

\* humanizer.py:181-209
StepHixBypass(resp) ==
    /\ hpc = "hix_bypass"
    /\ IF HixGate
       THEN Invoke("hix_bypass", resp, HixHumanize(resp, enhanced_text), TRUE,
                   "internal")
       ELSE Skip("internal")
    /\ UNCHANGED <<fnVars, batchVars, credential, mode, hret>>

\* humanizer.py:481-530: the internal passes.  On None the first of them
\* raises where it draws a replacement (line 270), and the second always
\* (text.split(), line 213)
HTInternal ==
    /\ hpc = "internal"
    /\ hpc' = "done"
    /\ hret' = IF enhanced_text.none THEN "raised" ELSE "text"
    /\ UNCHANGED <<fnVars, batchVars, credential, mode, enhanced_text, service_results,
                   response, calls>>

\* ------------------------------------------------------------- texts
\* A text is a sequence of characters.  "a" stands for the letters and
\* digits (\\w), "-" for the punctuation that ends no sentence.
NoOut == [kind |-> "none"]

IsSpace(ch) == ch \in {" "}
IsWordChar(ch) == ch \in {"a", "b"}
IsTerminator(ch) == ch \in {".", "!", "?"}

TextsOver(chars, n) == UNION {[1..k -> chars] : k \in 0..n}

RECURSIVE LStrip(_)
LStrip(s) == IF s # <<>> /\ IsSpace(Head(s)) THEN LStrip(Tail(s)) ELSE s

RECURSIVE RStrip(_)
RStrip(s) ==
    IF s # <<>> /\ IsSpace(s[Len(s)]) THEN RStrip(SubSeq(s, 1, Len(s) - 1)) ELSE s

\* str.strip()
Strip(s) == RStrip(LStrip(s))

\* the pieces of s between its terminators, one split at every terminator
RECURSIVE SplitAtTerminators(_)
SplitAtTerminators(s) ==
    IF s = <<>> THEN << <<>> >>
    ELSE LET rest == SplitAtTerminators(Tail(s)) IN
         IF IsTerminator(Head(s)) THEN << <<>> >> \o rest
         ELSE << <<Head(s)>> \o Head(rest) >> \o Tail(rest)

NonEmpty(s) == s # <<>>

\* text_analytics_service.py:400-403: _split_sentences.  re.split on runs
\* of terminators leaves the pieces of a split at every terminator, less
\* empty ones, and those are dropped after the strip.
SplitSentences(text) ==
    LET pieces == SplitAtTerminators(text) IN
    SelectSeq([i \in DOMAIN pieces |-> Strip(pieces[i])], NonEmpty)

\* s without the terminators it starts with
RECURSIVE DropTerminators(_)
DropTerminators(s) ==
    IF s # <<>> /\ IsTerminator(Head(s)) THEN DropTerminators(Tail(s)) ELSE s

\* re.split(r'[.!?]+', s): the pieces between the runs of terminators, an
\* empty piece before a run that starts s and after a run that ends it
RECURSIVE SplitRuns(_)
SplitRuns(s) ==
    IF s = <<>> THEN << <<>> >>
    ELSE IF IsTerminator(Head(s))
    THEN << <<>> >> \o SplitRuns(DropTerminators(Tail(s)))
    ELSE LET rest == SplitRuns(Tail(s)) IN
         << <<Head(s)>> \o Head(rest) >> \o Tail(rest)

\* text_analytics_service.py:405-408: _split_words, the maximal runs of
\* word characters
RECURSIVE SplitWords(_)
SplitWords(s) ==
    IF s = <<>> THEN <<>>
    ELSE IF ~IsWordChar(Head(s)) THEN SplitWords(Tail(s))
    ELSE LET rest == SplitWords(Tail(s)) IN
         IF Len(s) > 1 /\ IsWordChar(s[2])
         THEN << <<Head(s)>> \o Head(rest) >> \o Tail(rest)
         ELSE << <<Head(s)>> >> \o rest

\* ----------------------------------------------------------- analyze
\* the metric groups of the report, text_analytics_service.py:82-90
Groups == {"basic_stats", "readability", "complexity", "sentiment",
           "ai_indicators", "burstiness", "perplexity"}

\* what a sub-computation hands back: its metrics, or an error entry;
\* raised: it ended by an exception instead
Computed(raised) == [error |-> FALSE, raised |-> raised]
ErrorEntry == [error |-> TRUE, raised |-> FALSE]

\* a division, statistics.mean and statistics.variance raise on 0, on no
\* data and on fewer than two data; reached: the code's guard lets them run
DivRaises(d, reached) == reached /\ d = 0
MeanRaises(data, reached) == reached /\ Len(data) < 1
VarianceRaises(data, reached) == reached /\ Len(data) < 2

\* the list of each sentence's word count, lines 189, 256, 288
SentenceLengths(text) ==
    LET sentences == SplitSentences(text) IN
    [i \in DOMAIN sentences |-> Len(SplitWords(sentences[i]))]

\* text_analytics_service.py:103-136
BasicStats(text) ==
    LET sc == Len(SplitSentences(text))
        wc == Len(SplitWords(text)) IN
    Computed(DivRaises(sc, sc > 0) \/ DivRaises(wc, wc > 0))

\* text_analytics_service.py:138-179
Readability(text) ==
    LET sc == Len(SplitSentences(text))
        wc == Len(SplitWords(text)) IN
    IF sc = 0 \/ wc = 0 THEN ErrorEntry
    ELSE Computed(DivRaises(sc, TRUE) \/ DivRaises(wc, TRUE))

\* text_analytics_service.py:181-210
Complexity(text) ==
    LET wc == Len(SplitWords(text))
        lengths == SentenceLengths(text) IN
    Computed(\/ DivRaises(wc, wc > 0)
             \/ MeanRaises(lengths, Len(lengths) > 0)
             \/ VarianceRaises(lengths, Len(lengths) > 1))

\* text_analytics_service.py:212-237
Sentiment(text) ==
    LET wc == Len(SplitWords(text)) IN
    Computed(DivRaises(wc, wc > 0))

\* text_analytics_service.py:239-283
AiIndicators(text) ==
    LET wc == Len(SplitWords(text))
        sc == Len(SplitSentences(text))
        lengths == SentenceLengths(text) IN
    Computed(\/ DivRaises(wc, wc > 0)
             \/ VarianceRaises(lengths, Len(lengths) > 1)
             \/ DivRaises(sc, sc > 0))

\* too few sentences are fewer than three
TooFewSentences_Three(lengths) == Len(lengths) < 3

\* text_analytics_service.py:290
TooFewSentences(lengths) == Len(lengths) < 2

\* text_analytics_service.py:285-331: _analyze_burstiness; the mean divides
\* only when it is positive, each sentence's ratio only when it has words
Burstiness(text) ==
    LET lengths == SentenceLengths(text) IN
    IF TooFewSentences(lengths) THEN ErrorEntry
    ELSE Computed(\/ MeanRaises(lengths, TRUE)
                  \/ VarianceRaises(lengths, TRUE)
                  \/ \E i \in DOMAIN lengths : DivRaises(lengths[i], lengths[i] > 0))

\* text_analytics_service.py:333-357: _estimate_perplexity
Perplexity(text) ==
    LET wc == Len(SplitWords(text)) IN
    IF wc < 2 THEN ErrorEntry ELSE Computed(DivRaises(wc, TRUE))

GroupOf(g, text) ==
    CASE g = "basic_stats" -> BasicStats(text)
      [] g = "readability" -> Readability(text)
      [] g = "complexity" -> Complexity(text)
      [] g = "sentiment" -> Sentiment(text)
      [] g = "ai_indicators" -> AiIndicators(text)
      [] g = "burstiness" -> Burstiness(text)
      [] g = "perplexity" -> Perplexity(text)

\* text_analytics_service.py:50-101: analyze_text: the report with every
\* group, or the top-level failure of lines 96-101 when a group raised
AnalyzeText(text) ==
    IF \E g \in Groups : GroupOf(g, text).raised
    THEN [kind |-> "report", success |-> FALSE, computed |-> {}, errors |-> {}]
    ELSE [kind |-> "report", success |-> TRUE,
          computed |-> {g \in Groups : ~GroupOf(g, text).error},
          errors |-> {g \in Groups : GroupOf(g, text).error}]

\* only the empty string is refused
IsBlank_EmptyOnly(text) == text = <<>>

\* analytics.py:31: not text.strip()
IsBlank(text) == Strip(text) = <<>>

\* analytics.py:18-60: the route in front of analyze_text
RouteAnalyze(text) ==
    IF IsBlank(text) THEN [kind |-> "error", success |-> FALSE, computed |-> {},
                           errors |-> {}]
    ELSE AnalyzeText(text)

Apply(name, result) ==
    /\ op = "none"
    /\ op' = name
    /\ out' = result
    /\ UNCHANGED <<batchVars, humVars, arg>>

DoAnalyzeText == Apply("analyze_text", AnalyzeText(arg))

DoRouteAnalyze == Apply("route_analyze", RouteAnalyze(arg))

\* ---------------------------------------------------- normalization
\* the em dash (U+2014), written here with a character of its own
EmDash == "~"

\* the first position from i on that holds no whitespace (Len(t) + 1 when
\* there is none): where a greedy \s* ends
RECURSIVE SkipSpaces(_, _)
SkipSpaces(t, i) ==
    IF i <= Len(t) /\ IsSpace(t[i]) THEN SkipSpaces(t, i + 1) ELSE i

\* the first position from i on that holds no full stop
RECURSIVE SkipPeriods(_, _)
SkipPeriods(t, i) ==
    IF i <= Len(t) /\ t[i] = "." THEN SkipPeriods(t, i + 1) ELSE i

\* re.sub(r'\s+', ' ', t), line 524, from position i on
RECURSIVE CollapseSpaces(_, _)
CollapseSpaces(t, i) ==
    IF i > Len(t) THEN <<>>
    ELSE IF IsSpace(t[i]) THEN <<" ">> \o CollapseSpaces(t, SkipSpaces(t, i))
    ELSE <<t[i]>> \o CollapseSpaces(t, i + 1)

\* re.sub(r'\.+', '.', t), line 525
RECURSIVE CollapsePeriods(_, _)
CollapsePeriods(t, i) ==
    IF i > Len(t) THEN <<>>
    ELSE IF t[i] = "." THEN <<".">> \o CollapsePeriods(t, SkipPeriods(t, i))
    ELSE <<t[i]>> \o CollapsePeriods(t, i + 1)

\* re.sub(r',\s*,', ',', t), line 526: one pass from left to right; the
\* search goes on after the second comma of a match
RECURSIVE CollapseCommas(_, _)
CollapseCommas(t, i) ==
    IF i > Len(t) THEN <<>>
    ELSE LET j == SkipSpaces(t, i + 1) IN
         IF t[i] = "," /\ j <= Len(t) /\ t[j] = ","
         THEN <<",">> \o CollapseCommas(t, j + 1)
         ELSE <<t[i]>> \o CollapseCommas(t, i + 1)

\* re.sub(r'\s*\u2014\s*', ' \u2014 ', t), line 527
RECURSIVE SpaceEmDashes(_, _)
SpaceEmDashes(t, i) ==
    IF i > Len(t) THEN <<>>
    ELSE LET j == SkipSpaces(t, i) IN
         IF j <= Len(t) /\ t[j] = EmDash
         THEN <<" ", EmDash, " ">> \o SpaceEmDashes(t, SkipSpaces(t, j + 1))
         ELSE <<t[i]>> \o SpaceEmDashes(t, i + 1)

\* humanizer.py:523-528: step 11 of humanize_text
Normalize(t) ==
    LET spaces == CollapseSpaces(t, 1)
        periods == CollapsePeriods(spaces, 1)
        commas == CollapseCommas(periods, 1)
        dashes == SpaceEmDashes(commas, 1) IN
    Strip(dashes)

DoNormalize == Apply("normalize", [kind |-> "text", text |-> Normalize(arg)])

\* ------------------------------------------------------ comparison
\* a bucket applies as soon as one of its thresholds holds
ChangeLevel_AnyThreshold(w, sc, p) ==
    IF w < 5 \/ sc < 2 \/ p < 3 THEN "minimal"
    ELSE IF w < 15 \/ sc < 5 \/ p < 8 THEN "moderate"
    ELSE IF w < 30 \/ sc < 10 \/ p < 15 THEN "substantial"
    ELSE "extensive"

\* text_comparison_service.py:333-341
ChangeLevel(w, sc, p) ==
    IF w < 5 /\ sc < 2 /\ p < 3 THEN "minimal"
    ELSE IF w < 15 /\ sc < 5 /\ p < 8 THEN "moderate"
    ELSE IF w < 30 /\ sc < 10 /\ p < 15 THEN "substantial"
    ELSE "extensive"

\* abs(x)
Abs(x) == IF x < 0 THEN 0 - x ELSE x

\* text_comparison_service.py:326-366: _generate_change_summary, from the
\* counts of added and removed words, the change of the sentence count and
\* the number of punctuation marks whose count changed; change_types holds
\* the tags of lines 346-357 that these four decide
ChangeSummary(added_count, removed_count, sentence_count_change, punct_changes) ==
    LET total_word_changes == added_count + removed_count
        sentence_modifications == Abs(sentence_count_change) IN
    [kind |-> "summary",
     change_level |-> ChangeLevel(total_word_changes, sentence_modifications,
                                  punct_changes),
     total_word_changes |-> total_word_changes,
     sentence_modifications |-> sentence_modifications,
     structural_modifications |-> punct_changes,
     change_types |->
         (IF added_count > 5 THEN {"vocabulary_expansion"} ELSE {})
         \cup (IF removed_count > 5 THEN {"vocabulary_simplification"} ELSE {})
         \cup (IF sentence_count_change > 2
               THEN {"sentence_restructuring"} ELSE {})
         \cup (IF punct_changes > 5 THEN {"punctuation_modification"} ELSE {}),
     preservation_score |->
         100 - (total_word_changes + sentence_modifications + punct_changes)]

\* difflib.SequenceMatcher on sequences short of the 200 elements where
\* its popularity heuristic starts; positions are 1-based and inclusive.
\* a[i..i+k-1] equals b[j..j+k-1]
BlockAt(a, b, i, j, k) == \A d \in 0..(k - 1) : a[i + d] = b[j + d]

\* find_longest_match: the longest common block inside a[alo..ahi] and
\* b[blo..bhi], the one starting earliest in a, then earliest in b; size 0
\* when the two share no element
LongestMatch(a, b, alo, ahi, blo, bhi) ==
    LET blocks == {m \in [i : alo..ahi, j : blo..bhi, k : 1..(ahi - alo + 1)] :
                     /\ m.i + m.k - 1 <= ahi
                     /\ m.j + m.k - 1 <= bhi
                     /\ BlockAt(a, b, m.i, m.j, m.k)}
        Better(m, n) == \/ m.k > n.k
                        \/ m.k = n.k /\ m.i < n.i
                        \/ m.k = n.k /\ m.i = n.i /\ m.j <= n.j IN
    IF blocks = {} THEN [i |-> alo, j |-> blo, k |-> 0]
    ELSE CHOOSE m \in blocks : \A n \in blocks : Better(m, n)

\* get_matching_blocks: the elements matched, the longest block first and
\* then the stretches to its left and to its right
RECURSIVE Matched(_, _, _, _, _, _)
Matched(a, b, alo, ahi, blo, bhi) ==
    IF alo > ahi \/ blo > bhi THEN 0
    ELSE LET m == LongestMatch(a, b, alo, ahi, blo, bhi) IN
         IF m.k = 0 THEN 0
         ELSE m.k + Matched(a, b, alo, m.i - 1, blo, m.j - 1)
                  + Matched(a, b, m.i + m.k, ahi, m.j + m.k, bhi)

\* round(x, 3) of the fraction num / den, in thousandths
Round3(num, den) == (2000 * num + den) \div (2 * den)

\* two empty sequences taken as no match at all
Ratio_EmptyIsZero(a, b) ==
    IF Len(a) + Len(b) = 0 THEN 0
    ELSE Round3(2 * Matched(a, b, 1, Len(a), 1, Len(b)), Len(a) + Len(b))

\* SequenceMatcher(None, a, b).ratio(), rounded to three decimals, in
\* thousandths: 2.0 * matches / (len(a) + len(b)), and 1.0 for two empty
\* sequences
Ratio(a, b) ==
    IF Len(a) + Len(b) = 0 THEN 1000
    ELSE Round3(2 * Matched(a, b, 1, Len(a), 1, Len(b)), Len(a) + Len(b))

\* the characters matched by [.!?;:,\-\u2014()[\]{}"]
IsMark(ch) ==
    ch \in {".", "!", "?", ";", ":", ",", "-", EmDash,
            "(", ")", "[", "]", "{", "}", "\""}

\* list.count(x)
Count(t, x) == Cardinality({i \in DOMAIN t : t[i] = x})

\* text_comparison_service.py:92-144: _analyze_word_changes
WordChanges(original, humanized) ==
    LET original_set == Range(SplitWords(original))
        humanized_set == Range(SplitWords(humanized)) IN
    [added_count |-> Cardinality(humanized_set \ original_set),
     removed_count |-> Cardinality(original_set \ humanized_set)]

\* text_comparison_service.py:146-197: _analyze_sentence_changes
SentenceCountChange(original, humanized) ==
    Len(SplitSentences(humanized)) - Len(SplitSentences(original))

\* text_comparison_service.py:368-376: _get_text_stats, the sentence count
\* of the basic statistics
TextStats(text) == [sentences |-> Len(SplitRuns(text)) - 1]

\* text_comparison_service.py:71-90: _compare_basic_stats
CompareBasicStats(original, humanized) ==
    LET original_stats == TextStats(original)
        humanized_stats == TextStats(humanized) IN
    [original |-> original_stats,
     humanized |-> humanized_stats,
     changes |-> [sentence_change |->
                      humanized_stats.sentences - original_stats.sentences]]

\* text_comparison_service.py:199-214: the marks whose count differs
PunctChanges(original, humanized) ==
    LET all_punct == {original[i] : i \in {n \in DOMAIN original : IsMark(original[n])}}
                     \cup {humanized[i] : i \in {n \in DOMAIN humanized : IsMark(humanized[n])}} IN
    Cardinality({m \in all_punct : Count(original, m) # Count(humanized, m)})

\* text_comparison_service.py:290-324: _calculate_similarity_metrics
SimilarityMetrics(original, humanized) ==
    LET original_words == SplitWords(original)
        humanized_words == SplitWords(humanized)
        intersection == Cardinality(Range(original_words) \cap Range(humanized_words))
        union == Cardinality(Range(original_words) \cup Range(humanized_words)) IN
    [character_similarity |-> Ratio(original, humanized),
     word_similarity |-> Ratio(original_words, humanized_words),
     sentence_similarity |->
         Ratio(SplitSentences(original), SplitSentences(humanized)),
     jaccard_similarity |-> IF union > 0 THEN Round3(intersection, union) ELSE 0]

\* text_comparison_service.py:17-67: compare_texts. The groups are
\* computed with guarded divisions and the readability comparison catches
\* its own exceptions, so the report is the success one.
CompareTexts(original, humanized) ==
    LET word_changes == WordChanges(original, humanized) IN
    [kind |-> "comparison",
     success |-> TRUE,
     basic_comparison |-> CompareBasicStats(original, humanized),
     sentence_changes |->
         [sentence_count_change |-> SentenceCountChange(original, humanized)],
     similarity_metrics |-> SimilarityMetrics(original, humanized),
     change_summary |->
         ChangeSummary(word_changes.added_count, word_changes.removed_count,
                       SentenceCountChange(original, humanized),
                       PunctChanges(original, humanized))]

DoCompareTexts == Apply("compare_texts", CompareTexts(arg.original, arg.humanized))

DoChangeSummary ==
    Apply("change_summary",
          ChangeSummary(arg.added_count, arg.removed_count,
                        arg.sentence_count_change, arg.punct_changes))

\* ---------------------------------------------------------- polling
\* what one poll request may meet: the task still processing, a transport
\* error (RequestException), a status other than 200, the task completed,
\* the task failed
Continuing == {"processing", "transport"}
Ending == {"http_error", "completed", "failed"}

\* the poll responses a call with a budget of n attempts can meet: it asks
\* again only after a continuing one, and never more than n times
PollHistories(n) ==
    UNION {{Append(h, e) : h \in [1..k -> Continuing],
                           e \in IF k + 1 < n THEN Ending
                                  ELSE Ending \cup Continuing}
           : k \in 0..(n - 1)}

\* the result of a polling call, with the requests it issued and the
\* delays it slept
PollResult(success, error, polls, delays) ==
    [kind |-> "poll", success |-> success, error |-> error,
     polls |-> polls, delays |-> delays]

\* a delay that grows with the attempt
HixSleep_Growing(attempt) == HixRetryDelay * (attempt + 1)

\* time.sleep(self.retry_delay), lines 166 and 203
HixSleep(attempt) == HixRetryDelay

\* hix_bypass_service.py:137-219: the loop of _obtain_result from the
\* attempt numbered attempt (0-based), after the delays slept so far
RECURSIVE ObtainResult(_, _, _)
ObtainResult(responses, attempt, delays) ==
    IF attempt = HixMaxRetries
    THEN PollResult(FALSE, "did_not_complete", attempt, delays)
    ELSE LET r == responses[attempt + 1]
             slept == Append(delays, HixSleep(attempt)) IN
         CASE r = "completed" -> PollResult(TRUE, "none", attempt + 1, delays)
           [] r = "processing" -> ObtainResult(responses, attempt + 1, slept)
           [] r = "failed" -> PollResult(FALSE, "task_failed", attempt + 1, delays)
           [] r = "http_error" -> PollResult(FALSE, "http", attempt + 1, delays)
           [] r = "transport" ->
                IF attempt = HixMaxRetries - 1
                THEN PollResult(FALSE, "request_failed", attempt + 1, delays)
                ELSE ObtainResult(responses, attempt + 1, slept)

\* time.sleep(2), lines 122 and 144
PwaSleep(attempt) == PwaRetryDelay

\* prowritingaid_service.py:100-150: the loop of get_analysis_result
RECURSIVE AnalysisLoop(_, _, _)
AnalysisLoop(responses, attempt, delays) ==
    IF attempt = PwaMaxRetries
    THEN PollResult(FALSE, "timed_out", attempt, delays)
    ELSE LET r == responses[attempt + 1]
             slept == Append(delays, PwaSleep(attempt)) IN
         CASE r = "completed" -> PollResult(TRUE, "none", attempt + 1, delays)
           [] r = "failed" -> PollResult(FALSE, "analysis_failed", attempt + 1, delays)
           [] r = "processing" -> AnalysisLoop(responses, attempt + 1, slept)
           [] r = "http_error" -> PollResult(FALSE, "http", attempt + 1, delays)
           [] r = "transport" ->
                IF attempt = PwaMaxRetries - 1
                THEN PollResult(FALSE, "request_failed", attempt + 1, delays)
                ELSE AnalysisLoop(responses, attempt + 1, slept)

\* prowritingaid_service.py:83-150: get_analysis_result; without key or
\* task id it answers before any request
GetAnalysisResult(usable, responses) ==
    IF ~usable
    THEN PollResult(FALSE, "not_configured", 0, <<>>)
    ELSE AnalysisLoop(responses, 0, <<>>)

DoObtainResult ==
    /\ arg.service = "hix_bypass"
    /\ Apply("obtain_result", ObtainResult(arg.responses, 0, <<>>))

DoGetAnalysisResult ==
    /\ arg.service = "prowritingaid"
    /\ Apply("get_analysis_result", GetAnalysisResult(arg.usable, arg.responses))

\* ---------------------------------------------------- overall score
\* the scores a metric group may hold inside 0..100
GridScores == {(100 * k) \div Grid : k \in 0..Grid}

\* a group that returned {'error': ...}, and one that holds its score
Insufficient == [error |-> TRUE, score |-> 0]
Holding(scores) == [error : {FALSE}, score : scores]

\* flesch_reading_ease, lines 168-173: unbounded on both sides
ReadabilityResults == {Insufficient} \cup Holding(GridScores \cup {0 - 25, 125})
\* complexity_score, line 209: a sum of three ratios, never negative, above
\* 100 when the ratios sum to more than one
ComplexityResults == Holding(GridScores \cup {125})
\* ai_likelihood_score, lines 274-281: weights 0.3 + 0.2 + 0.3 + 0.2 on
\* ratios of at most one
AiIndicatorResults == Holding(GridScores)
\* burstiness_score, lines 311-312: never negative, capped at 100
BurstinessResults == {Insufficient} \cup Holding(GridScores)

\* dict.get(key, 50)
GetScore(group) == IF group.error THEN 50 ELSE group.score

\* min(a, b) and max(a, b)
Lesser(a, b) == IF a < b THEN a ELSE b
Greater(a, b) == IF a > b THEN a ELSE b

\* the readability component taken as it comes
ReadabilityScore_Unclamped(readability) == GetScore(readability)

\* line 364
ReadabilityScore(readability) == Lesser(100, Greater(0, GetScore(readability)))
\* line 365
ComplexityScore(complexity) == Lesser(100, GetScore(complexity))
\* line 366
AntiAiScore(ai_indicators) == 100 - GetScore(ai_indicators)
\* line 367
BurstinessScore(burstiness) == GetScore(burstiness)

\* text_analytics_service.py:359-397: _calculate_overall_score. The four
\* arguments are dicts of numbers, so no statement of the try block raises
\* and the except branch (all components 50) is not taken. overall is in
\* hundredths: the weights are 0.25, 0.25, 0.3 and 0.2.
OverallScore(readability, complexity, ai_indicators, burstiness) ==
    LET r == ReadabilityScore(readability)
        c == ComplexityScore(complexity)
        a == AntiAiScore(ai_indicators)
        b == BurstinessScore(burstiness) IN
    [kind |-> "overall",
     overall |-> 25 * r + 25 * c + 30 * a + 20 * b,
     readability |-> r, complexity |-> c, anti_ai |-> a, burstiness |-> b]

\* text_analytics_service.py:91-93: analyze_text hands the four groups over
DoOverallScore ==
    Apply("overall_score",
          OverallScore(arg.readability, arg.complexity,
                       arg.ai_indicators, arg.burstiness))

\* ------------------------------------------------- simulated scores
\* every third mode is given no human share
TargetPercentages_NoShare(m) ==
    IF m = "fast" THEN [ai_generated |-> 75, human_written |-> 25]
    ELSE IF m = "aggressive" THEN [ai_generated |-> 0, human_written |-> 0]
    ELSE [ai_generated |-> 50, human_written |-> 50]

\* humanizer.py:83-90: get_target_percentages; targets.get(mode,
\* targets['balanced'])
TargetPercentages(m) ==
    IF m = "fast" THEN [ai_generated |-> 75, human_written |-> 25]
    ELSE IF m = "aggressive" THEN [ai_generated |-> 0, human_written |-> 100]
    ELSE [ai_generated |-> 50, human_written |-> 50]

\* the units of one percentage point, and of a hundred
Point == 10 * Sub
Hundred == 100 * Point

\* the values random.uniform(-3, 3) may draw, in units
Variations == (0 - MaxVariation * Point)..(MaxVariation * Point)

\* a score left as it is
Clamp_None(x) == x

\* max(0, min(100, x))
Clamp(x) == IF x < 0 THEN 0 ELSE IF x > Hundred THEN Hundred ELSE x

\* (x / total) * 100 when total > 0
Renormalize(x, total) == IF total > 0 THEN (x * Hundred) \div total ELSE x

\* round(x, 1), in tenths: the nearest tenth; a value half way between two
\* tenths is stored as a binary fraction a little below or above it, and
\* goes to either
Round1(x) ==
    LET q == x \div Sub
        r == x % Sub IN
    IF 2 * r < Sub THEN {q} ELSE IF 2 * r > Sub THEN {q + 1} ELSE {q, q + 1}

\* humanizer.py:562-573 and batch_processing_service.py:192-202, the same
\* statements: the achieved pair before it is rounded
AchievedScores(m, variation) ==
    LET target == TargetPercentages(m)
        ai == Clamp(target.ai_generated * Point + variation)
        human == Clamp(target.human_written * Point - variation)
        total == ai + human IN
    [target |-> target,
     ai |-> Renormalize(ai, total),
     human |-> Renormalize(human, total)]

\* the pair as reported, humanizer.py:579-580 and
\* batch_processing_service.py:211-212
Reported(name, scores, ai_reported, human_reported) ==
    Apply(name, [kind |-> "scores", target |-> scores.target,
                 ai |-> scores.ai, human |-> scores.human,
                 ai_reported |-> ai_reported, human_reported |-> human_reported])

\* humanizer.py:559-583: the route computes its response
DoRouteScores ==
    LET scores == AchievedScores(arg.mode, arg.variation) IN
    \E a \in Round1(scores.ai), h \in Round1(scores.human) :
        Reported("route_scores", scores, a, h)

\* batch_processing_service.py:187-216: _process_single_text builds its
\* result
DoItemScores ==
    LET scores == AchievedScores(arg.mode, arg.variation) IN
    \E a \in Round1(scores.ai), h \in Round1(scores.human) :
        Reported("item_scores", scores, a, h)

\* ------------------------------------------------------- perplexity
\* math.log2 of the whole numbers 1..8, in thousandths of a bit
Log2Milli == <<0, 1000, 1585, 2000, 2322, 2585, 2807, 3000>>

\* sum(xs)
RECURSIVE SumOver(_)
SumOver(xs) == IF xs = <<>> THEN 0 ELSE Head(xs) + SumOver(Tail(xs))

\* 2 ** n for a whole n
RECURSIVE Pow2(_)
Pow2(n) == IF n = 0 THEN 1 ELSE 2 * Pow2(n - 1)

\* text_analytics_service.py:333-357: _estimate_perplexity. probabilities
\* holds one entry for every word of the text (line 339), and the entropy
\* sums over that list (line 342). entropy_sum is the entropy times the
\* number of words, in thousandths of a bit: p * log2(p) for p = c / n is
\* c * (log2(c) - log2(n)) / n. estimated_perplexity is given where the
\* entropy is a whole number of bits, and is 0 elsewhere.
EstimatePerplexity(text) ==
    LET words == SplitWords(text)
        total_words == Len(words)
        word_freq == [i \in DOMAIN words |-> Count(words, words[i])]
        entropy_sum ==
            SumOver([i \in DOMAIN words |->
                        word_freq[i] * (Log2Milli[total_words]
                                        - Log2Milli[word_freq[i]])])
        unique_words == Cardinality(Range(words)) IN
    IF total_words < 2
    THEN [kind |-> "perplexity", error |-> TRUE, entropy_sum |-> 0,
          estimated_perplexity |-> 0, total_words |-> total_words,
          unique_words |-> unique_words]
    ELSE [kind |-> "perplexity", error |-> FALSE, entropy_sum |-> entropy_sum,
          estimated_perplexity |->
              IF entropy_sum % (1000 * total_words) = 0
              THEN Pow2(entropy_sum \div (1000 * total_words)) ELSE 0,
          total_words |-> total_words,
          unique_words |-> unique_words]

DoEstimatePerplexity == Apply("estimate_perplexity", EstimatePerplexity(arg))

\* ----------------------------------------------- sentence structure
\* the word counts a fragment of re.split may have: none (empty or blank),
\* and counts on either side of the thresholds 10, 12 and 25
FragmentWords == {0, 1, 9, 12, 26}

\* the outcomes of the random draws made for one sentence: the words of the
\* starter put in front (0 for none), whether the merge draw and the split
\* draw came out below their thresholds
StructureDraws == [starter : {0, 1}, merge : BOOLEAN, split : BOOLEAN]

\* the successor is left in the list
Consume_Nothing(used, i) == used

\* sentences[i + 1] = "", line 357
Consume(used, i) == used \cup {i}

\* humanizer.py:324-384: the loop of vary_sentence_structure from fragment
\* i on. frags holds the word count of every fragment, used the fragments
\* emptied so far, modified the sentences appended so far, each
\* with the fragments whose words it holds.
RECURSIVE VaryFrom(_, _, _, _, _)
VaryFrom(frags, draws, i, used, modified) ==
    IF i > Len(frags) THEN modified
    ELSE IF frags[i] = 0 \/ i \in used
    THEN VaryFrom(frags, draws, i + 1, used, modified)
    ELSE LET started == draws[i].starter > 0 /\ i > 1
             words == frags[i] + (IF started THEN draws[i].starter ELSE 0)
             combine == /\ words < 10 /\ i < Len(frags) /\ draws[i].merge
                        /\ (i + 1) \notin used
                        /\ frags[i + 1] > 0 /\ frags[i + 1] < 12 IN
         IF combine
         THEN VaryFrom(frags, draws, i + 1, Consume(used, i + 1),
                       Append(modified, [parts |-> <<i, i + 1>>, started |-> started,
                                    split |-> FALSE]))
         ELSE VaryFrom(frags, draws, i + 1, used,
                       Append(modified, [parts |-> <<i>>, started |-> started,
                                    split |-> words > 25 /\ draws[i].split]))

\* humanizer.py:319-386: vary_sentence_structure
VarySentenceStructure(frags, draws) ==
    [kind |-> "sentences", sentences |-> VaryFrom(frags, draws, 1, {}, <<>>)]

DoVarySentenceStructure ==
    \E draws \in [DOMAIN arg -> StructureDraws] :
        Apply("vary_sentence_structure", VarySentenceStructure(arg, draws))

\* ---------------------------------------------------- sentence flow
\* humanizer.py:287-296: the list the phrase is drawn from, for the piece
\* at index i (line 279 counts from 0, here from 1) of a list whose last
\* index is last
Transitions(i, last) ==
    IF i = 2 THEN "second"
    ELSE IF i = last THEN "closing"
    ELSE "middle"

\* humanizer.py:279-315: the loop of improve_sentence_flow from piece i on;
\* improved holds the sentences appended so far, each with the index of its
\* piece and the list its phrase came from ("none" without a phrase). The
\* sentences here have fewer than 6 words, which lines 303-313 leave alone.
RECURSIVE FlowFrom(_, _, _, _)
FlowFrom(pieces, draws, i, improved) ==
    IF i > Len(pieces) THEN improved
    ELSE IF Strip(pieces[i]) = <<>>
    THEN FlowFrom(pieces, draws, i + 1, improved)
    ELSE LET phrase == IF draws[i] /\ Len(improved) > 0
                       THEN Transitions(i, Len(pieces))
                       ELSE "none" IN
         FlowFrom(pieces, draws, i + 1,
                  Append(improved, [piece |-> i, sentence |-> Strip(pieces[i]),
                                    transitions |-> phrase]))

\* humanizer.py:274-317: improve_sentence_flow
ImproveSentenceFlow(text, draws) ==
    [kind |-> "flow", sentences |-> FlowFrom(SplitRuns(text), draws, 1, <<>>)]

DoImproveSentenceFlow ==
    \E draws \in [DOMAIN SplitRuns(arg) -> BOOLEAN] :
        Apply("improve_sentence_flow", ImproveSentenceFlow(arg, draws))

\* -------------------------------------------------------- vocabulary
\* the letters of the vocabulary pass, in their two cases; every other
\* character of a token is punctuation
LowerCase == {"u", "x", "y"}
UpperCase == {"U", "X", "Y"}
IsLetter(ch) == ch \in LowerCase \cup UpperCase

\* str.lower() and str.upper() on one character
ToLower(ch) == CASE ch = "U" -> "u" [] ch = "X" -> "x" [] ch = "Y" -> "y"
                 [] OTHER -> ch
ToUpper(ch) == CASE ch = "u" -> "U" [] ch = "x" -> "X" [] ch = "y" -> "Y"
                 [] OTHER -> ch

\* re.sub(r'[^\w]', '', word.lower()), line 218
CleanWord(word) ==
    LET lowered == [i \in DOMAIN word |-> ToLower(word[i])] IN
    SelectSeq(lowered, IsLetter)

IsPunctuation(ch) == ~IsLetter(ch)

\* re.findall(r'[^\w]', word) joined, lines 241-243
PunctuationOf(word) == SelectSeq(word, IsPunctuation)

\* str.capitalize()
Capitalize(r) ==
    [i \in DOMAIN r |-> IF i = 1 THEN ToUpper(r[i]) ELSE ToLower(r[i])]

\* self.vocabulary_replacements, lines 39-61: one entry stands for them
VocabularyKey == <<"u", "u">>
Replacements == { <<"x", "x">>, <<"y">> }

\* humanizer.py:220-246: the token put in place of word when it is
\* replaced by r
ReplacedToken(word, r) ==
    (IF word[1] \in UpperCase THEN Capitalize(r) ELSE r) \o PunctuationOf(word)

\* lines 224-233: the replacements not found among the up to three words on
\* either side, all of them when none is left
GoodReplacements(words, i) ==
    LET nearby_words == {CleanWord(words[j]) :
                            j \in ((i - 3)..(i + 3) \cap DOMAIN words) \ {i}}
        good == Replacements \ nearby_words IN
    IF good = {} THEN Replacements ELSE good

\* humanizer.py:211-250: replace_vocabulary on the tokens of text.split();
\* draws[i] says whether random.random() < intensity came out for token i,
\* picks[i] is the replacement random.choice takes when it is among the
\* good ones
ReplaceVocabulary(words, draws, picks) ==
    LET replaced == [i \in DOMAIN words |->
                        /\ CleanWord(words[i]) = VocabularyKey
                        /\ draws[i]
                        /\ picks[i] \in GoodReplacements(words, i)] IN
    [kind |-> "tokens",
     replaced |-> replaced,
     words |-> [i \in DOMAIN words |->
                   IF replaced[i] THEN ReplacedToken(words[i], picks[i])
                   ELSE words[i]]]

DoReplaceVocabulary ==
    \E draws \in [DOMAIN arg -> BOOLEAN], picks \in [DOMAIN arg -> Replacements] :
        Apply("replace_vocabulary", ReplaceVocabulary(arg, draws, picks))

\* ------------------------------------------------------ specifications
\* humanizer.py:17-33: the constructor reads the credentials it is given
InitHumanizer(creds) ==
    /\ credential \in creds
    /\ hpc = "idle"
    /\ mode = "fast"
    /\ enhanced_text = InputText
    /\ service_results = NoResults
    /\ response = [s \in ServiceSet |-> "none"]
    /\ calls = <<>>
    /\ hret = "none"

NoCredentials == [k \in Credentials |-> FALSE]

\* analytics.py:16 constructs the orchestrator; the width is its argument
InitBatch(widths) ==
    /\ max_workers \in widths
    /\ active_batches = [k \in {} |-> 0]
    /\ clock = 0
    /\ pc = [c \in Callers |-> "idle"]
    /\ texts = [c \in Callers |-> <<>>]
    /\ bid = [c \in Callers |-> NoId]
    /\ fut = [c \in Callers |-> <<>>]
    /\ yielded = [c \in Callers |-> <<>>]
    /\ results = [c \in Callers |-> <<>>]
    /\ cur = [c \in Callers |-> 0]
    /\ ret = [c \in Callers |-> "none"]
    /\ apc = [a \in Aux |-> "idle"]
    /\ aloc = [a \in Aux |-> NoLoc]
    /\ aret = [a \in Aux |-> "none"]

\* process_batch and its pool while the job record stays in the table
PBSteps(c, lens) ==
    \/ \E n \in lens, id \in {NoId} \cup UserIds : PBEnter(c, n, id)
    \/ PBSubmit(c)
    \/ WorkerStart(c)
    \/ \E i \in Running(c), ok \in BOOLEAN : WorkerFinish(c, i, ok)
    \/ \E i \in Finished(c) : PBCollect(c, i)
    \/ PBUpdate(c)
    \/ PBSort(c)
    \/ PBMark(c)
    \/ PBEndTime(c)
    \/ PBReturn(c)

\* the steps process_batch takes after a KeyError
PBErrorSteps(c) ==
    \/ PBExceptTest(c)
    \/ PBExceptUpdate(c)
    \/ PBHandler(c)
    \/ PBHandlerSet(c)

AuxSteps(a) ==
    \/ \E id \in AllIds : GSTest(a, id)
    \/ GSCopy(a)
    \/ GABegin(a)
    \/ GAEnd(a)
    \/ \E h \in 0..MaxAgeHours : CLBegin(a, h)
    \/ CLScan(a)
    \/ \E id \in AllIds : CLDelete(a, id)
    \/ CLReturn(a)

\* concurrent process_batch calls alone, within one reading of the clock:
\* no record is ever deleted, so no access to the table raises
NextBatch == \E c \in Callers : PBSteps(c, Lens(MaxLen))

\* all four operations, concurrently
Next ==
    \/ \E c \in Callers : PBSteps(c, Lens(MaxLenShared))
    \/ \E c \in Callers : PBErrorSteps(c)
    \/ \E a \in Aux : AuxSteps(a)
    \/ Tick

\* the first step of process_batch alone, for every length up to the limit
\* and one past it
NextAccept ==
    \/ \E c \in Callers, n \in 0..(MaxBatchSize + 1), id \in {NoId} \cup UserIds :
          PBEnter(c, n, id)
    \/ Tick

\* one humanize_text call against collaborators that answer in every way
NextHumanizer ==
    \/ \E m \in RequestModes : HTEnter(m)
    \/ \E resp \in LtResponses : StepLanguageTool(resp)
    \/ \E resp \in PwaResponses : StepProWritingAid(resp)
    \/ \E resp \in AthResponses : StepAiTextHumanizer(resp)
    \/ \E resp \in HixResponses : StepHixBypass(resp)
    \/ HTInternal

\* nothing applied yet, to the argument a
InitFn(a) ==
    /\ arg \in a
    /\ op = "none"
    /\ out = NoOut

Init == InitBatch(1..MaxWidth) /\ InitHumanizer({NoCredentials}) /\ InitFn({<<>>})

InitExt ==
    /\ InitBatch({DefaultWidth})
    /\ InitHumanizer([Credentials -> BOOLEAN])
    /\ InitFn({<<>>})

\* the orchestrator and the humanizer at rest
Quiet == InitBatch({DefaultWidth}) /\ InitHumanizer({NoCredentials})

SpecHumanizer == InitExt /\ [][NextHumanizer]_vars

\* the characters of the texts analyzed: a letter, a space, a sentence end
\* and a hyphen
AnalyzeChars == {"a", " ", ".", "-"}

InitAnalyze == Quiet /\ InitFn(TextsOver(AnalyzeChars, MaxTextLen))

\* analyze, called directly and through its route, on every short text
NextAnalyze ==
    \/ DoAnalyzeText
    \/ DoRouteAnalyze

SpecAnalyze == InitAnalyze /\ [][NextAnalyze]_vars

\* the characters of the texts normalized: a letter, a space, a full
\* stop, an exclamation mark, a comma and an em dash
RawChars == {"a", " ", ".", "!", ",", EmDash}

InitNormalize == Quiet /\ InitFn(TextsOver(RawChars, MaxRawLen))

NextNormalize == DoNormalize

SpecNormalize == InitNormalize /\ [][NextNormalize]_vars

\* the characters of the texts compared: a letter, a space and a full stop
CompareChars == {"a", " ", "."}

InitCompare ==
    Quiet /\ InitFn([original : TextsOver(CompareChars, MaxCmpLen),
                     humanized : TextsOver(CompareChars, MaxCmpLen)])

NextCompare == DoCompareTexts

SpecCompare == InitCompare /\ [][NextCompare]_vars

\* the change counts handed to the summary: at most NumMarks marks can
\* change their count
InitSummary ==
    Quiet /\ InitFn([added_count : 0..MaxAdded,
                     removed_count : {0, 1, ManyRemoved},
                     sentence_count_change :
                         (0 - MaxSentenceDelta)..MaxSentenceDelta,
                     punct_changes : 0..NumMarks])

NextSummary == DoChangeSummary

SpecSummary == InitSummary /\ [][NextSummary]_vars

InitPolling ==
    Quiet /\ InitFn([service : {"hix_bypass"}, usable : {TRUE},
                     responses : PollHistories(HixMaxRetries)]
                    \cup [service : {"prowritingaid"}, usable : BOOLEAN,
                          responses : PollHistories(PwaMaxRetries)])

\* one polling call of either collaborator, for every history of responses
NextPolling ==
    \/ DoObtainResult
    \/ DoGetAnalysisResult

SpecPolling == InitPolling /\ [][NextPolling]_vars

InitOverall ==
    Quiet /\ InitFn([readability : ReadabilityResults,
                     complexity : ComplexityResults,
                     ai_indicators : AiIndicatorResults,
                     burstiness : BurstinessResults])

\* the overall score for every combination of group results
NextOverall == DoOverallScore

SpecOverall == InitOverall /\ [][NextOverall]_vars

InitScores == Quiet /\ InitFn([mode : RequestModes, variation : Variations])

\* the score simulation of the route and of a batch item, for every mode
\* and every variation
NextScores ==
    \/ DoRouteScores
    \/ DoItemScores

SpecScores == InitScores /\ [][NextScores]_vars

\* the characters of the texts whose perplexity is estimated: two letters
\* and a space
PerplexityChars == {"a", "b", " "}

InitPerplexity == Quiet /\ InitFn(TextsOver(PerplexityChars, MaxPerpLen))

NextPerplexity == DoEstimatePerplexity

SpecPerplexity == InitPerplexity /\ [][NextPerplexity]_vars

InitStructure ==
    Quiet /\ InitFn(UNION {[1..n -> FragmentWords] : n \in 0..MaxFragments})

NextStructure == DoVarySentenceStructure

SpecStructure == InitStructure /\ [][NextStructure]_vars

\* the characters of the texts of the sentence-flow pass: a letter, a
\* space and a full stop
FlowChars == {"a", " ", "."}

InitFlow == Quiet /\ InitFn(TextsOver(FlowChars, MaxFlowLen))

NextFlow == DoImproveSentenceFlow

SpecFlow == InitFlow /\ [][NextFlow]_vars

\* the characters of the tokens of the vocabulary pass: a letter in its
\* two cases, an opening bracket and a comma
TokenChars == {"u", "U", "(", ","}
Tokens == UNION {[1..n -> TokenChars] : n \in 1..MaxTokenLen}

InitVocabulary ==
    Quiet /\ InitFn(UNION {[1..n -> Tokens] : n \in 0..MaxTokens})

NextVocabulary == DoReplaceVocabulary

SpecVocabulary == InitVocabulary /\ [][NextVocabulary]_vars

\* the steps of the thread that runs process_batch for c, after the call
\* was accepted
OrchestratorSteps(c) ==
    \/ PBSubmit(c)
    \/ \E i \in Finished(c) : PBCollect(c, i)
    \/ PBUpdate(c)
    \/ PBSort(c)
    \/ PBMark(c)
    \/ PBEndTime(c)
    \/ PBReturn(c)
    \/ PBErrorSteps(c)

\* the steps of the pool threads of c; an execution of the single-text
\* pipeline ends, one way or the other
WorkerSteps(c) ==
    \/ WorkerStart(c)
    \/ \E i \in Running(c), ok \in BOOLEAN : WorkerFinish(c, i, ok)

\* all four operations, the threads of every call scheduled fairly
SpecFair ==
    /\ Init /\ [][Next]_vars
    /\ \A c \in Callers : WF_vars(OrchestratorSteps(c)) /\ WF_vars(WorkerSteps(c))

SpecBatch == Init /\ [][NextBatch]_vars

SpecAccept == Init /\ [][NextAccept]_vars

Spec == Init /\ [][Next]_vars

\* ------------------------------------------------------------- claims
Entered(c) == bid[c] # NoId

Successes(c) == Cardinality({i \in DOMAIN results[c] : results[c][i].success})
Failures(c) == Cardinality({i \in DOMAIN results[c] : ~results[c][i].success})

\* process_batch returned its success result, which carries the results list
ReturnedResults(c) == pc[c] = "done" /\ ret[c] = "ok"

\* C1: for every accepted batch and every completion order, the results list
\* that process_batch returns has one entry per text, the entry at position
\* i has index i - 1 (each index once, ascending) and carries texts[i] as
\* its original_text.
C1_ResultsInInputOrder ==
    \A c \in Callers :
        ReturnedResults(c) =>
            /\ Len(results[c]) = Len(texts[c])
            /\ \A i \in DOMAIN results[c] :
                  /\ results[c][i].index = i - 1
                  /\ results[c][i].original_text = texts[c][i]

\* C2: process_batch with an empty list or with more than 50 texts returns
\* an error, leaves the job table as it was and starts no execution; with
\* 1 to 50 texts it creates the record total = n, completed = 0,
\* failed = 0, status = processing.
C2_Validation ==
    [][\A c \in Callers :
          (pc[c] = "idle" /\ pc'[c] # "idle") =>
              LET n == Len(texts'[c]) IN
              IF n = 0 \/ n > MaxBatchSize
              THEN /\ ret'[c] \in {"err_empty", "err_too_large"}
                   /\ pc'[c] = "done"
                   /\ active_batches' = active_batches
                   /\ fut'[c] = <<>>
              ELSE /\ ret'[c] = "none"
                   /\ bid'[c] \in DOMAIN active_batches'
                   /\ active_batches'[bid'[c]].total = n
                   /\ active_batches'[bid'[c]].completed = 0
                   /\ active_batches'[bid'[c]].failed = 0
                   /\ active_batches'[bid'[c]].status = "processing"]_vars

\* a batch of exactly 50 texts was accepted and one of 51 was rejected
C2_Witness ==
    \E c, d \in Callers :
        /\ pc[c] = "submit" /\ Len(texts[c]) = MaxBatchSize
        /\ active_batches[bid[c]].total = MaxBatchSize
        /\ ret[d] = "err_too_large" /\ Len(texts[d]) = MaxBatchSize + 1

\* no other call uses the batch id of c
DistinctId(c) == \A d \in Callers \ {c} : bid[d] # bid[c]

\* C3: for jobs with distinct batch ids, in every interleaving of the
\* completions and of concurrent process_batch calls, a job marked completed
\* has completed = number of successful results, failed = number of failed
\* results and completed + failed = total.
C3_NoLostUpdate ==
    \A c \in Callers :
        (/\ pc[c] \in {"end_time", "return", "done"}
         /\ Entered(c) /\ DistinctId(c)
         /\ Has(bid[c]) /\ active_batches[bid[c]].status = "completed") =>
            /\ active_batches[bid[c]].completed = Successes(c)
            /\ active_batches[bid[c]].failed = Failures(c)
            /\ active_batches[bid[c]].completed + active_batches[bid[c]].failed
                 = active_batches[bid[c]].total

\* two calls with different ids ran together; one is marked completed with
\* one success and one failure
C3_Witness ==
    \E c, d \in Callers :
        /\ ret[c] = "ok" /\ Entered(d) /\ bid[d] # bid[c]
        /\ active_batches[bid[c]].status = "completed"
        /\ active_batches[bid[c]].completed = 1
        /\ active_batches[bid[c]].failed = 1

\* C4: a record's status, once completed or failed, never changes again.
C4_StatusSettlesOnce ==
    [][\A id \in DOMAIN active_batches \cap DOMAIN active_batches' :
          active_batches[id].status # "processing" =>
              active_batches'[id].status = active_batches[id].status]_vars

\* C5: no record is removed from the table while its status is processing.
C5_EvictionAfterSettled ==
    [][\A id \in DOMAIN active_batches \ DOMAIN active_batches' :
          active_batches[id].status # "processing"]_vars

\* a cleanup ends its scan
ScanEnds(a) == apc[a] = "cl_scan" /\ apc'[a] = "cl_delete"

\* C6 (amended): the scan of cleanup_old_batches selects exactly the records
\* whose age, clock reading minus start_time, is strictly greater than
\* max_age_hours * 3600, so never a record whose start_time is the clock
\* reading; and only selected ids leave the table.
C6_EvictionByAge ==
    [][/\ \A a \in Aux :
             ScanEnds(a) =>
                 /\ aloc'[a].rm =
                       {id \in DOMAIN active_batches :
                           aloc[a].now - active_batches[id].start_time > aloc[a].max_age}
                 /\ \A id \in aloc'[a].rm : active_batches[id].start_time # aloc[a].now
       /\ \A id \in DOMAIN active_batches \ DOMAIN active_batches' :
             \E a \in Aux : apc[a] = "cl_delete" /\ id \in aloc[a].rm]_vars

\* cleanup_old_batches(0) selected a record and left another, whose
\* start_time is the clock reading
C6_Witness ==
    \E a \in Aux :
        /\ apc[a] = "cl_delete" /\ aloc[a].max_age = 0 /\ aloc[a].rm # {}
        /\ \E id \in DOMAIN active_batches \ aloc[a].rm :
              active_batches[id].start_time = aloc[a].now

\* C6 as claimed: cleanup_old_batches(0) selects every record of the table.
C6_ZeroEvictsAll ==
    [][\A a \in Aux :
          (ScanEnds(a) /\ aloc[a].max_age = 0) =>
              aloc'[a].rm = DOMAIN active_batches]_vars

\* executions in progress in all pools together
InFlight == Cardinality({<<c, i>> \in Callers \X (1..MaxLen) : i \in Running(c)})

\* calls whose pool is alive
LivePools ==
    {c \in Callers :
        pc[c] \in {"submit", "collect", "update", "update_exc", "update_exc2", "handler"}}

\* C7 (amended): each process_batch call runs at most max_workers
\* executions at a time, the rest of its items wait queued, and all calls
\* together at most max_workers per live pool; a submit never waits.
C7_WidthPerCall ==
    /\ \A c \in Callers :
          /\ Cardinality(Running(c)) <= max_workers
          /\ (Queued(c) # {} /\ Running(c) = {}) => ENABLED WorkerStart(c)
          /\ pc[c] = "submit" => ENABLED PBSubmit(c)
    /\ InFlight <= max_workers * Cardinality(LivePools)

\* a batch is wholly submitted and none of its items has finished: the pool
\* is full and an item waits in the queue
C7_Witness ==
    \E c \in Callers :
        /\ pc[c] = "collect" /\ Finished(c) = {}
        /\ Cardinality(Running(c)) = max_workers /\ Queued(c) # {}

\* C7 as claimed: the executions in progress in the orchestrator never
\* exceed max_workers.
C7_WidthPerOrchestrator == InFlight <= max_workers

\* the place of a collaborator in the fixed order
Position(service) == CHOOSE i \in DOMAIN Services : Services[i] = service

Called(service) == service \in Range(calls)

\* what a sound collaborator answers
SoundResponses == {"ok", "completed"}

\* the collaborator was asked and failed
Failed(service) == response[service] \notin {"none"} \cup SoundResponses

\* C8: whatever way a collaborator fails, the failure is recorded under its
\* own key, the service is not marked applied, the working text is a text
\* and not that collaborator's, the collaborators after it are still
\* invoked, and humanize_text ends with a text.
C8_FaultIsolation ==
    /\ \A s \in ServiceSet :
          Failed(s) =>
              /\ ~service_results[s].applied
              /\ service_results[s].error # "none"
              /\ s \notin Range(enhanced_text.by)
    /\ ~enhanced_text.none
    /\ hpc \in {"internal", "done"} =>
          /\ PwaGate => Called("prowritingaid")
          /\ AthGate => Called("ai_text_humanizer")
          /\ HixGate => Called("hix_bypass")
    /\ hpc = "done" => hret = "text"

\* C9: the collaborators are invoked in the order grammar, style,
\* humanizer, bypass, each at most once; the grammar service in every mode;
\* the style and the humanizer service only in balanced or aggressive mode
\* with their credential set (the humanizer's endpoint only with e-mail and
\* password); the bypass service only in aggressive mode with its key, and
\* last; in fast mode none but the grammar service.
C9_CollaboratorOrder ==
    /\ \A i, j \in DOMAIN calls : i < j => Position(calls[i]) < Position(calls[j])
    /\ hpc \notin {"idle", "languagetool"} => Called("languagetool")
    /\ Called("prowritingaid") =>
          mode \in {"balanced", "aggressive"} /\ credential["prowritingaid_key"]
    /\ Called("ai_text_humanizer") =>
          mode \in {"balanced", "aggressive"} /\ credential["humanizer_email"]
    /\ response["ai_text_humanizer"] # "none" => credential["humanizer_password"]
    /\ Called("hix_bypass") =>
          /\ mode = "aggressive" /\ credential["hix_key"]
          /\ calls[Len(calls)] = "hix_bypass"
    /\ mode = "fast" => Range(calls) \subseteq {"languagetool"}
    /\ \A s \in ServiceSet : response[s] # "none" => Called(s)

\* an aggressive call with every credential set went through all four
\* collaborators, in order, and ended
C9_Witness ==
    /\ hpc = "done" /\ calls = Services
    /\ \A s \in ServiceSet : response[s] # "none"

\* C11: a mode outside fast, balanced, aggressive is rejected before any
\* processing: humanize_text ends with an error, no collaborator is called
\* and no pass runs.
C11_InvalidModeRejected ==
    mode \notin Modes =>
        /\ calls = <<>>
        /\ hpc \in {"idle", "done"}
        /\ hret \notin {"text", "raised"}

\* the argument is empty or holds spaces only
Blank == \A i \in DOMAIN arg : IsSpace(arg[i])

\* the groups a blank text leaves without data
BlankErrors == {"readability", "burstiness", "perplexity"}

\* C12 (amended): the route in front of analyze rejects the empty and the
\* whitespace-only text with a validation error and computes no group;
\* analyze_text itself does not raise on such a text, and returns a success
\* report whose readability, burstiness and perplexity groups hold an error
\* entry.
C12_BlankAtRouteAndService ==
    Blank =>
        /\ op = "route_analyze" =>
              out.kind = "error" /\ ~out.success /\ out.computed = {}
        /\ op = "analyze_text" =>
              out.kind = "report" /\ out.success /\ out.errors = BlankErrors

\* the route refused a text of two spaces
C12_Witness ==
    /\ arg = <<" ", " ">>
    /\ op = "route_analyze"
    /\ out.kind = "error"

\* C12 as claimed: analyze of the empty or a whitespace-only text is a
\* validation error with no group computed, at the route and in
\* analyze_text.
C12_BlankIsValidationError ==
    (Blank /\ op # "none") => (~out.success /\ out.computed = {})

Scored == op \in {"route_scores", "item_scores"}

\* C13: for every mode and every variation in [-3, 3], in the route and in
\* the batch item alike, achieved_ai and achieved_human each lie in
\* [0, 100] and sum to 100; the reported values, rounded to one decimal, lie
\* in [0, 100] and sum to 100 within one tenth.
C13_AchievedSumTo100 ==
    Scored =>
        /\ out.ai \in 0..Hundred
        /\ out.human \in 0..Hundred
        /\ out.ai + out.human = Hundred
        /\ out.ai_reported \in 0..1000
        /\ out.human_reported \in 0..1000
        /\ out.ai_reported + out.human_reported \in 999..1001

\* aggressive mode with a negative variation: both scores were clamped,
\* to 0 and to 100
C13_Witness ==
    /\ op = "item_scores"
    /\ arg.mode = "aggressive" /\ arg.variation < 0
    /\ out.ai = 0 /\ out.human = Hundred

\* C14: get_target_percentages returns 75/25 for fast, 50/50 for balanced,
\* 0/100 for aggressive and the balanced pair for any other mode; the two
\* always sum to 100.
C14_TargetsSumTo100 ==
    Scored =>
        /\ out.target.ai_generated + out.target.human_written = 100
        /\ arg.mode = "fast" =>
              out.target = [ai_generated |-> 75, human_written |-> 25]
        /\ arg.mode = "aggressive" =>
              out.target = [ai_generated |-> 0, human_written |-> 100]
        /\ arg.mode \notin {"fast", "aggressive"} =>
              out.target = [ai_generated |-> 50, human_written |-> 50]

\* an unrecognised mode was given the balanced pair
C14_Witness ==
    /\ op = "route_scores"
    /\ arg.mode \notin Modes
    /\ out.target = [ai_generated |-> 50, human_written |-> 50]

\* t holds x and y next to each other
Adjacent(t, x, y) == \E i \in 1..(Len(t) - 1) : t[i] = x /\ t[i + 1] = y

\* t holds two commas with nothing but whitespace between them
DuplicateCommas(t) ==
    \E i \in DOMAIN t : \E j \in DOMAIN t :
        /\ i < j /\ t[i] = "," /\ t[j] = ","
        /\ \A k \in (i + 1)..(j - 1) : IsSpace(t[k])

\* C16: the text produced by the normalization step of humanize_text holds
\* no run of two or more whitespace characters, no repeated sentence end
\* ("..", "!!"), no duplicate commas and keeps no whitespace at either end.
C16_Normalized ==
    op = "normalize" =>
        LET t == out.text IN
        /\ ~Adjacent(t, " ", " ")
        /\ ~Adjacent(t, ".", ".") /\ ~Adjacent(t, "!", "!")
        /\ ~DuplicateCommas(t)
        /\ t # <<>> => ~IsSpace(t[1]) /\ ~IsSpace(t[Len(t)])

\* C20: change_level is the first of minimal (w<5, s<2, p<3), moderate
\* (w<15, s<5, p<8) and substantial (w<30, s<10, p<15) whose three
\* thresholds all hold for w = added + removed words, s = the absolute
\* change of the sentence count and p = the marks whose count changed, and
\* extensive when none does; preservation_score = 100 - (w + s + p), not
\* clamped.
C20_ChangeLevelBuckets ==
    op = "change_summary" =>
        LET w == arg.added_count + arg.removed_count
            sc == IF arg.sentence_count_change < 0
                  THEN 0 - arg.sentence_count_change
                  ELSE arg.sentence_count_change
            p == arg.punct_changes
            minimal == w < 5 /\ sc < 2 /\ p < 3
            moderate == w < 15 /\ sc < 5 /\ p < 8
            substantial == w < 30 /\ sc < 10 /\ p < 15 IN
        /\ out.change_level = "minimal" <=> minimal
        /\ out.change_level = "moderate" <=> ~minimal /\ moderate
        /\ out.change_level = "substantial" <=>
              ~minimal /\ ~moderate /\ substantial
        /\ out.change_level = "extensive" <=>
              ~minimal /\ ~moderate /\ ~substantial
        /\ out.preservation_score = 100 - (w + sc + p)

\* many words removed and fewer sentences: the level is extensive and the
\* preservation score is negative
C20_Witness ==
    /\ op = "change_summary"
    /\ arg.added_count = 0 /\ arg.removed_count = ManyRemoved
    /\ arg.sentence_count_change < 0
    /\ out.change_level = "extensive"
    /\ out.preservation_score < 0

\* C17: comparing a non-empty text with itself succeeds and reports
\* character, word and sentence similarity 1.0 and preservation score 100.
C17_SelfComparison ==
    (op = "compare_texts" /\ arg.original = arg.humanized
                          /\ arg.original # <<>>) =>
        /\ out.success
        /\ out.similarity_metrics.character_similarity = 1000
        /\ out.similarity_metrics.word_similarity = 1000
        /\ out.similarity_metrics.sentence_similarity = 1000
        /\ out.change_summary.preservation_score = 100

\* a text of two sentences was compared with itself
C17_Witness ==
    /\ op = "compare_texts"
    /\ arg.original = <<"a", ".", "a">>
    /\ arg.humanized = arg.original
    /\ out.similarity_metrics.sentence_similarity = 1000

Polled == op \in {"obtain_result", "get_analysis_result"}

\* the attempts and the delay the polled collaborator is built with
Budget == IF arg.service = "hix_bypass" THEN HixMaxRetries ELSE PwaMaxRetries
Delay == IF arg.service = "hix_bypass" THEN HixRetryDelay ELSE PwaRetryDelay

\* C15: for every history of poll responses a polling call returns after at
\* most its budget of requests (5 for HIX Bypass, 10 for ProWritingAid),
\* having slept the same fixed delay before each further request; it
\* returns success only if its last poll reported completion and an error
\* otherwise, and when no poll ended the task the error comes after the
\* whole budget.
C15_PollingBounded ==
    Polled =>
        /\ out.polls \in 0..Budget
        /\ out.polls <= Len(arg.responses)
        /\ \A i \in DOMAIN out.delays : out.delays[i] = Delay
        /\ Len(out.delays) \in {out.polls - 1, out.polls}
               \cap 0..Budget
        /\ out.success =>
              /\ out.polls > 0
              /\ arg.responses[out.polls] = "completed"
              /\ out.error = "none"
        /\ ~out.success => out.error # "none"
        /\ (arg.usable /\ \A i \in DOMAIN arg.responses :
                             arg.responses[i] \in Continuing) =>
              ~out.success /\ out.polls = Budget

\* ProWritingAid answered "processing" ten times and the call gave up
C15_Witness ==
    /\ op = "get_analysis_result"
    /\ arg.usable
    /\ \A i \in DOMAIN arg.responses : arg.responses[i] = "processing"
    /\ out.polls = PwaMaxRetries
    /\ out.error = "timed_out"

\* a sub-computation feeding the overall score failed
SomeGroupFailed == arg.readability.error \/ arg.burstiness.error

\* C18: the overall score never propagates a sub-computation failure: a
\* group that reported an error counts 50 for its own component, the other
\* components are computed from their groups (complexity capped at 100,
\* anti_ai the complement of the AI likelihood), and every component and
\* the overall score lie in [0, 100].
C18_FailedComponentIsNeutral ==
    op = "overall_score" =>
        /\ arg.readability.error => out.readability = 50
        /\ arg.burstiness.error => out.burstiness = 50
        /\ out.complexity = Lesser(100, arg.complexity.score)
        /\ out.anti_ai = 100 - arg.ai_indicators.score
        /\ \A x \in {out.readability, out.complexity,
                      out.anti_ai, out.burstiness} : x \in 0..100
        /\ out.overall \in 0..10000

\* readability and burstiness failed, and the overall score is not 50
C18_Witness ==
    /\ op = "overall_score"
    /\ arg.readability.error /\ arg.burstiness.error
    /\ out.complexity = 0
    /\ out.overall # 5000

\* C18 as stated: whenever a sub-computation failed, all four components
\* and the overall score are 50.
C18_AnyFailureAllNeutral ==
    (op = "overall_score" /\ SomeGroupFailed) =>
        /\ out.readability = 50 /\ out.complexity = 50
        /\ out.anti_ai = 50 /\ out.burstiness = 50
        /\ out.overall = 5000

\* the Shannon entropy of the word frequencies of words, times the number
\* of words, in thousandths of a bit: one term for every distinct word
ShannonSum(words) ==
    SumOver([i \in DOMAIN words |->
                IF \E j \in 1..(i - 1) : words[j] = words[i] THEN 0
                ELSE Count(words, words[i])
                     * (Log2Milli[Len(words)]
                        - Log2Milli[Count(words, words[i])])])

\* every distinct word of words occurs the same number of times
Uniform(words) ==
    \A i \in DOMAIN words : \A j \in DOMAIN words :
        Count(words, words[i]) = Count(words, words[j])

\* C21: for a text of at least 2 words the entropy is the Shannon entropy
\* over its distinct words, and the perplexity 2 to that power; where each
\* of d distinct words occurs the same number of times the perplexity is d.
C21_PerplexityIsShannon ==
    (op = "estimate_perplexity" /\ ~out.error) =>
        LET words == SplitWords(arg) IN
        /\ out.entropy_sum = ShannonSum(words)
        /\ (Uniform(words) /\ Cardinality(Range(words)) \in {1, 2, 4}) =>
              out.estimated_perplexity = Cardinality(Range(words))

\* the fragments held by the sentences of out, in the order of out
RECURSIVE Flat(_)
Flat(sentences) ==
    IF sentences = <<>> THEN <<>>
    ELSE Head(sentences).parts \o Flat(Tail(sentences))

\* the positions of the fragments of frags that hold words, in order
RECURSIVE Sentences(_, _)
Sentences(frags, i) ==
    IF i > Len(frags) THEN <<>>
    ELSE (IF frags[i] > 0 THEN <<i>> ELSE <<>>) \o Sentences(frags, i + 1)

\* C22: whatever the random draws, every sentence of the input is found
\* exactly once in the output of the structure pass, in the input's order:
\* a merged successor is inside the merged sentence only and is merged
\* once, and no other sentence is dropped.
C22_MergedSuccessorConsumed ==
    op = "vary_sentence_structure" =>
        /\ Flat(out.sentences) = Sentences(arg, 1)
        /\ \A k \in DOMAIN out.sentences :
              LET parts == out.sentences[k].parts IN
              Len(parts) \in {1, 2} /\ (Len(parts) = 2 => parts[2] = parts[1] + 1)

\* the first of three sentences took in the second, the third followed
C22_Witness ==
    /\ op = "vary_sentence_structure"
    /\ Len(arg) = 3 /\ arg[3] > 0
    /\ Len(out.sentences) = 2
    /\ out.sentences[1].parts = <<1, 2>>
    /\ out.sentences[2].parts = <<3>>

\* C23: in the sentence-flow pass the first sentence of the text is never
\* prefixed; a prefixed second sentence takes its phrase from the
\* second-sentence list, a prefixed last sentence of three or more from the
\* closing list, any other prefixed sentence from the middle list, whether
\* or not the text ends with a terminator.
C23_PhraseByPosition ==
    op = "improve_sentence_flow" =>
        LET n == Len(out.sentences) IN
        \A k \in 1..n :
            LET phrase == out.sentences[k].transitions IN
            /\ k = 1 => phrase = "none"
            /\ (k = 2 /\ phrase # "none") => phrase = "second"
            /\ (k = n /\ n >= 3 /\ phrase # "none") => phrase = "closing"
            /\ (k > 2 /\ k < n /\ phrase # "none") => phrase = "middle"

\* C24: change_types holds sentence_restructuring exactly when the
\* magnitude of the sentence-count change, the one change_level and
\* preservation_score use, exceeds 2, with more sentences or with fewer.
C24_RestructuringByMagnitude ==
    op = "change_summary" =>
        ("sentence_restructuring" \in out.change_types
            <=> out.sentence_modifications > 2)

\* the punctuation word starts with and the punctuation it ends with
RECURSIVE LeadingPunctuation(_)
LeadingPunctuation(word) ==
    IF word # <<>> /\ IsPunctuation(Head(word))
    THEN <<Head(word)>> \o LeadingPunctuation(Tail(word)) ELSE <<>>

RECURSIVE TrailingPunctuation(_)
TrailingPunctuation(word) ==
    IF word # <<>> /\ IsPunctuation(word[Len(word)])
    THEN TrailingPunctuation(SubSeq(word, 1, Len(word) - 1)) \o <<word[Len(word)]>>
    ELSE <<>>

\* word is punctuation, letters, punctuation, with nothing between letters
PlainToken(word) ==
    Len(LeadingPunctuation(word)) + Len(CleanWord(word))
        + Len(TrailingPunctuation(word)) = Len(word)

\* C25: a replaced token keeps the capitalization of its word (upper-case
\* first letter iff the original word had one, also behind a bracket) and
\* the place of its punctuation (what preceded the word precedes the
\* replacement, what followed it follows); a token that is not replaced is
\* unchanged and in place.
C25_CaseAndPunctuationKept ==
    op = "replace_vocabulary" =>
        /\ Len(out.words) = Len(arg)
        /\ \A i \in DOMAIN arg :
              LET word == arg[i]
                  lead == LeadingPunctuation(word)
                  trail == TrailingPunctuation(word)
                  upper == word[Len(lead) + 1] \in UpperCase IN
              /\ ~out.replaced[i] => out.words[i] = word
              /\ (out.replaced[i] /\ PlainToken(word)) =>
                    \E r \in Replacements :
                        out.words[i] =
                            lead \o (IF upper THEN Capitalize(r) ELSE r) \o trail

\* C26: in every reachable state every job record has 0 <= completed,
\* 0 <= failed and completed + failed <= total, so the progress percentage
\* is within [0, 100], also when calls share a batch id.
C26_CountersWithinTotal ==
    \A id \in DOMAIN active_batches :
        LET info == active_batches[id] IN
        /\ info.completed >= 0 /\ info.failed >= 0
        /\ info.completed + info.failed <= info.total

C28_SentenceCountsAgree ==
    op = "compare_texts" =>
        /\ out.basic_comparison.original.sentences =
               Len(SplitSentences(arg.original))
        /\ out.basic_comparison.humanized.sentences =
               Len(SplitSentences(arg.humanized))
        /\ out.basic_comparison.changes.sentence_change =
               out.sentence_changes.sentence_count_change

\* the record under the id of c counts every item of c once
CountedOnce(c) ==
    /\ Has(bid[c])
    /\ active_batches[bid[c]].completed = Successes(c)
    /\ active_batches[bid[c]].failed = Failures(c)
    /\ active_batches[bid[c]].completed + active_batches[bid[c]].failed
         = Len(texts[c])

\* C29: under fair scheduling of the threads, every accepted process_batch
\* call eventually returns, and by then every item of the batch is counted
\* once as completed or failed and the status of the job is no longer
\* processing.
C29_EveryBatchSettles ==
    \A c \in Callers :
        Entered(c) ~>
            (/\ pc[c] = "done"
             /\ CountedOnce(c)
             /\ active_batches[bid[c]].status # "processing")

\* C29, the termination alone: every accepted call eventually returns
C29_EveryBatchReturns ==
    \A c \in Callers : Entered(c) ~> pc[c] = "done"

\* the step is one of get_batch_status or get_active_batches in thread a:
\* it starts or ends the copy or the listing, or answers that the id is
\* not found
StatusStep(a) ==
    \/ apc[a] = "idle" /\ apc'[a] \in {"gs_copy", "ga_iter"}
    \/ apc[a] \in {"gs_copy", "ga_iter"} /\ apc'[a] = "idle"
    \/ aret'[a] # aret[a] /\ aret'[a] = "err_not_found"

\* C30: get_batch_status and get_active_batches are read-only: no step of
\* theirs changes the job table or a record of it, the derived fields go
\* to the caller's copy; get_batch_status goes on to the copy only for an
\* id in the table, and for an id that is not there (never known, or
\* evicted) it answers with the error result and creates no record.
C30_StatusReadsOnly ==
    [][\A a \in Aux :
          /\ StatusStep(a) => active_batches' = active_batches
          /\ (apc[a] = "idle" /\ apc'[a] = "gs_copy") => Has(aloc'[a].id)
          /\ (apc[a] = "idle" /\ aret'[a] = "err_not_found"
                /\ aret[a] # "err_not_found") =>
                 AllIds \ DOMAIN active_batches' # {}]_vars

\* the record of a call was evicted and a get_batch_status answered that
\* the id is not found
C30_Witness ==
    \E a \in Aux, c \in Callers :
        /\ Entered(c) /\ ~Has(bid[c])
        /\ aret[a] = "err_not_found"

\* C10: no public operation of the orchestrator ends by raising.
C10_NoOperationRaises ==
    /\ \A c \in Callers : ret[c] # "raised"
    /\ \A a \in Aux : aret[a] # "raised"
====
